---- MODULE Spec2Model ----
(***************************************************************************)
(* Order-execution engine of the stock trading simulator.                  *)
(*                                                                         *)
(*   TradeProcessor   worker pool over a buffered channel (tradeQueue),    *)
(*                    a stop channel and a WaitGroup                       *)
(*   PortfolioManager map user id -> *sync.Mutex guarded by an RWMutex     *)
(*   processTrade     one BUY inside one database transaction              *)
(*   SellStock        the HTTP handler of POST /api/trades/sell, which     *)
(*                    runs its transaction directly on the store           *)
(*   the store        users, portfolios and trades tables of init.sql,     *)
(*                    with row locks (SELECT ... FOR UPDATE, UPDATE) held   *)
(*                    until the transaction ends or the store aborts it    *)
(*                                                                         *)
(* Money.  Columns of the store are DECIMAL(_,2): they hold whole cents.   *)
(* A request's price is a float64 with no limit on its decimals; the model *)
(* writes prices in mills (1/1000), so that a price may or may not be a    *)
(* whole number of cents.  The handlers compute price * quantity in        *)
(* float64; the product is computed here digit by digit as the hardware    *)
(* does (53-bit significand, round to nearest even) and is kept as the     *)
(* decimal qty*price in mills together with the side of that decimal on    *)
(* which the float64 product lies.  The store's own arithmetic (NUMERIC)   *)
(* is exact decimal arithmetic.                                            *)
(***************************************************************************)
EXTENDS Integers, Sequences, FiniteSets, TLC

(***************************************************************************)
(* Bounds of the model.                                                    *)
(***************************************************************************)
MaxWorkers == 2
MaxCalls == 3
MaxSells == 1
LedgerCalls == 2
MaxFaults == 1
MaxBlocked == 2
\* The trade records account 2 has when the history of account 1 is full.
OtherTrades == 2

(***************************************************************************)
(* Program constants.                                                      *)
(***************************************************************************)
QueueCap == 100
TradeLimit == 15

(***************************************************************************)
(* Inputs.                                                                 *)
(***************************************************************************)
\* A user id with no row in users.
NoUser == 99999
Accounts == {1, 2}
UserIDs == Accounts \cup {NoUser}
Symbols == {"AAPL"}

Workers == 1..MaxWorkers
Calls == 1..MaxCalls
Sells == 1..MaxSells

WorkerTx(w) == w
SellTx(j) == MaxWorkers + j

\* models.BuyRequest; Price in mills.  SellStock reuses the struct.
BuyRequest(u, s, qty, price) ==
    [UserID |-> u, StockSymbol |-> s, Quantity |-> qty, Price |-> price]
NoRequest == BuyRequest(0, "", 0, 0)

\* A float64 amount of money: the decimal number of mills nearest to it, and
\* the side of that decimal's own float64 on which it lies (-1 below, 0 equal,
\* 1 above).  The difference is far below a mill, so that amounts are ordered
\* by mills first and by side second.
Amount(mills, side) == [mills |-> mills, side |-> side]

TradeResult(id, ok, err, total) ==
    [TradeID |-> id, Success |-> ok, Error |-> err, TotalAmount |-> total]
NoResult == TradeResult(0, FALSE, "", Amount(0, 0))

(***************************************************************************)
(* State.                                                                  *)
(***************************************************************************)
VARIABLES
    workers,      \* TradeProcessor.workers
    started,      \* Start has launched the workers
    stopCh,       \* TradeProcessor.stopCh: "open" or "closed"
    stopPc,       \* position of the caller of Stop: "idle", "waiting", "returned"
    wg,           \* TradeProcessor.wg, the WaitGroup counter
    tradeQueue,   \* TradeProcessor.tradeQueue: the calls whose TradeRequest is buffered
    userLocks,    \* PortfolioManager.userLocks: user id -> mutex (0 is nil)
    mutexCount,   \* number of sync.Mutex values allocated so far
    mutexLocked,  \* the mutexes that are locked
    mapMutex,     \* PortfolioManager.mapMutex: its writer (0: none) and its readers
    wpc,          \* position of each worker goroutine
    cur,          \* the call whose request the worker dequeued (0: none)
    userMutex,    \* the local userMutex of LockUser / UnlockUser
    result,       \* the TradeResult processTrade returns
    tx,           \* the worker's open transaction and what it has written
    cpc,          \* position of each SubmitTrade call
    creq,         \* its request
    cres,         \* the result it returned
    nres,         \* how many results were sent on its ResultCh
    spc,          \* position of each SellStock handler
    sreq,         \* its request
    sresp,        \* its HTTP response
    stx,          \* its open transaction and what it has written
    cash,         \* users.cash_balance, in cents
    portfolios,   \* portfolios rows: (user, symbol) -> quantity, avg_purchase_price
    trades,       \* trades rows, oldest first
    tradeSeq,     \* the sequence behind trades.id
    rowLock,      \* row locks of the store: row -> transaction holding it (0: none)
    faultsLeft,   \* how many statements of the store will still fail
    cash0,        \* the balances the accounts were created with
    portfolios0,  \* the positions the accounts started with
    atStop,       \* the calls queued, and those dequeued and unanswered, when Stop was called
    userSeq,      \* the sequence behind users.id
    cleanup       \* how many tables a running CleanupTestDB has gone through

poolVars == <<workers, started, stopCh, stopPc, wg, tradeQueue>>
lockVars == <<userLocks, mutexCount, mutexLocked, mapMutex, userMutex>>
workerVars == <<wpc, cur, result, tx>>
callVars == <<cpc, creq, cres, nres>>
sellVars == <<spc, sreq, sresp, stx>>
ledger == <<cash, portfolios, trades>>
storeVars == <<cash, portfolios, trades, tradeSeq, rowLock, faultsLeft>>
initVars == <<cash0, portfolios0, atStop>>
testVars == <<userSeq, cleanup>>
vars == <<poolVars, lockVars, workerVars, callVars, sellVars, storeVars, initVars,
          testVars>>

(***************************************************************************)
(* The store: the tables of init.sql and the statements run against them.  *)
(***************************************************************************)
Position(qty, avg) == [exists |-> TRUE, quantity |-> qty, avg_purchase_price |-> avg]
NoRow == [exists |-> FALSE, quantity |-> 0, avg_purchase_price |-> 0]

UserRow(u) == <<"users", u, "">>
PositionRow(u, s) == <<"portfolios", u, s>>
Rows == {UserRow(u) : u \in Accounts} \cup {PositionRow(u, s) : u \in Accounts, s \in Symbols}

\* A value in mills stored in a DECIMAL(_,2) column: rounded to whole cents,
\* halves away from zero.
RoundCents(m) == IF m >= 0 THEN (m + 5) \div 10 ELSE 0 - ((5 - m) \div 10)

\* The quotient n/d (n >= 0, d > 0) rounded to the nearest integer, halves up.
RoundQuot(n, d) == (2 * n + d) \div (2 * d)

\* A float64 above zero is 1.d1d2d3d4 * 2^exp: a leading one and 52 binary
\* digits, written here as four digits of 13 bits each.
Limb == 8192

\* The exponent of num/den: 2^exp <= num/den < 2^(exp+1).
RECURSIVE Exponent(_, _)
Exponent(num, den) ==
    IF num >= 2 * den THEN Exponent(num, 2 * den) + 1
    ELSE IF num < den THEN Exponent(2 * num, den) - 1
    ELSE 0

\* num/den as a fraction n/d with the same digits and 1 <= n/d < 2.
RECURSIVE Scaled(_, _)
Scaled(num, den) ==
    IF num >= 2 * den THEN Scaled(num, 2 * den)
    ELSE IF num < den THEN Scaled(2 * num, den)
    ELSE <<num, den>>

\* The next significand; <<>> when there is none with this exponent.
Successor(digits) ==
    IF digits[4] + 1 < Limb THEN [digits EXCEPT ![4] = @ + 1]
    ELSE IF digits[3] + 1 < Limb THEN <<digits[1], digits[2], digits[3] + 1, 0>>
    ELSE IF digits[2] + 1 < Limb THEN <<digits[1], digits[2] + 1, 0, 0>>
    ELSE IF digits[1] + 1 < Limb THEN <<digits[1] + 1, 0, 0, 0>>
    ELSE <<>>

\* Round to nearest, ties to even: half tells that the digit after the 53rd
\* is one, rest that a later digit is.
RoundToEven(exp, digits, half, rest) ==
    IF ~(half /\ (rest \/ digits[4] % 2 = 1)) THEN [exp |-> exp, digits |-> digits]
    ELSE IF Successor(digits) = <<>> THEN [exp |-> exp + 1, digits |-> <<0, 0, 0, 0>>]
    ELSE [exp |-> exp, digits |-> Successor(digits)]

\* The element of a set of one element.  The float64 operators below hand
\* each intermediate result on as the element of such a set.
Only(S) == CHOOSE x \in S : TRUE

\* The 53 digits of n/d (1 <= n/d < 2) after the leading one, with the
\* remainder that tells how to round.
Digits(n, d) ==
    LET r0 == n - d
        r1 == (r0 * Limb) % d
        r2 == (r1 * Limb) % d
        r3 == (r2 * Limb) % d
    IN  <<(r0 * Limb) \div d, (r1 * Limb) \div d, (r2 * Limb) \div d, (r3 * Limb) \div d,
          (r3 * Limb) % d>>

\* The float64 nearest to the decimal num/den > 0: what parsing the JSON
\* number of a request, or scanning a DECIMAL column, yields.
Float64(num, den) ==
    Only({RoundToEven(exp, SubSeq(q, 1, 4), 2 * q[5] >= d, 2 * q[5] # d /\ q[5] # 0) :
             exp \in {Exponent(num, den)},
             d \in {Scaled(num, den)[2]},
             q \in {Digits(Scaled(num, den)[1], Scaled(num, den)[2])}})

\* The digits of x, with the leading one, times n: five digits, the first of
\* which may exceed one.
Multiple(x, n) ==
    LET v4 == x.digits[4] * n
        v3 == x.digits[3] * n + v4 \div Limb
        v2 == x.digits[2] * n + v3 \div Limb
        v1 == x.digits[1] * n + v2 \div Limb
    IN  <<n + v1 \div Limb, v1 % Limb, v2 % Limb, v3 % Limb, v4 % Limb>>

\* The digits v moved down by s < 13 places, with the digits moved out.
Shifted(v, s) ==
    <<(v[1] % 2^s) * (Limb \div 2^s) + v[2] \div 2^s,
      (v[2] % 2^s) * (Limb \div 2^s) + v[3] \div 2^s,
      (v[3] % 2^s) * (Limb \div 2^s) + v[4] \div 2^s,
      (v[4] % 2^s) * (Limb \div 2^s) + v[5] \div 2^s,
      v[5] % 2^s>>

\* x * float64(n): the exact product, rounded to 53 digits.
Times(x, n) ==
    Only({RoundToEven(x.exp + s, SubSeq(q, 1, 4),
                      s > 0 /\ 2 * q[5] >= 2^s, s > 0 /\ 2 * q[5] # 2^s /\ q[5] # 0) :
             s \in {Exponent(Multiple(x, n)[1], 1)},
             q \in {Shifted(Multiple(x, n), Exponent(Multiple(x, n)[1], 1))}})

\* x < y, x = y, x > y: -1, 0, 1.
Compare(x, y) ==
    LET a == <<x.exp>> \o x.digits
        b == <<y.exp>> \o y.digits
    IN  IF a = b THEN 0
        ELSE LET i == CHOOSE k \in 1 .. 5 : a[k] # b[k] /\ \A h \in 1 .. k - 1 : a[h] = b[h]
             IN  IF a[i] > b[i] THEN 1 ELSE -1

\* totalCost := req.Price * float64(req.Quantity)
TotalCost(req) ==
    IF req.Price * req.Quantity = 0 THEN Amount(0, 0)
    ELSE Only({Amount(req.Price * req.Quantity, Compare(product, decimal)) :
                  product \in {Only({Times(price, req.Quantity) :
                                       price \in {Float64(req.Price, 1000)}})},
                  decimal \in {Float64(req.Price * req.Quantity, 1000)}})

\* A NUMERIC value of m mills, off by less than a mill on side s, stored in a
\* DECIMAL(_,2) column: a half cent goes up only if the value reaches it.
RoundNear(m, s) ==
    IF m % 10 = 5 /\ m > 0 /\ s < 0 THEN RoundCents(m) - 1
    ELSE IF m % 10 = 5 /\ m < 0 /\ s > 0 THEN RoundCents(m) + 1
    ELSE RoundCents(m)

\* Variant: a BUY that is not checked against the balance.
FundsNotChecked(cashBalance, totalCost) == FALSE

\* Variant: a check that lets the cost exceed the balance by up to one cent.
FundsCheckedLoosely(cashBalance, totalCost) == cashBalance * 10 + 10 < totalCost.mills

\* if cashBalance < totalCost  (cashBalance in cents, scanned into a float64)
InsufficientFunds(cashBalance, totalCost) ==
    \/ cashBalance * 10 < totalCost.mills
    \/ cashBalance * 10 = totalCost.mills /\ totalCost.side > 0

\* Variant: an UPDATE of users without its WHERE clause.
SetBalanceOfAll(balances, u, balance) == [a \in DOMAIN balances |-> balance]

\* UPDATE users SET cash_balance = ... WHERE id = $2: the row of user u only
SetBalance(balances, u, balance) == [balances EXCEPT ![u] = balance]

\* UPDATE users SET cash_balance = cash_balance - $1, the float64 sent as its
\* shortest decimal
Debit(balance, totalCost) ==
    RoundNear(balance * 10 - totalCost.mills, 0 - totalCost.side)

\* UPDATE users SET cash_balance = cash_balance + $1
Credit(balance, totalProceeds) ==
    RoundNear(balance * 10 + totalProceeds.mills, totalProceeds.side)

\* Variant: an upsert that overwrites the average with the price of the buy.
UpsertLastPrice(row, qty, price) ==
    Position((IF row.exists THEN row.quantity ELSE 0) + qty, RoundCents(price))

\* INSERT INTO portfolios ... ON CONFLICT (user_id, stock_symbol) DO UPDATE SET ...
Upsert(row, qty, price) ==
    IF ~row.exists
    THEN Position(qty, RoundCents(price))
    ELSE Position(row.quantity + qty,
                  RoundQuot(row.avg_purchase_price * 10 * row.quantity + price * qty,
                            10 * (row.quantity + qty)))

\* Variant: a check that lets a sell exceed the holding by one share.
SharesCheckedLoosely(currentQuantity, qty) == currentQuantity + 1 < qty

\* if currentQuantity < req.Quantity
InsufficientShares(currentQuantity, qty) == currentQuantity < qty

\* Variant: a sell that always updates the row, also to quantity 0.
SellPositionKeepsRow(row, qty) == Position(row.quantity - qty, row.avg_purchase_price)

\* newQuantity == 0: DELETE FROM portfolios; otherwise UPDATE portfolios SET quantity = $1
SellPosition(row, qty) ==
    IF row.quantity - qty = 0
    THEN NoRow
    ELSE Position(row.quantity - qty, row.avg_purchase_price)

\* A row of trades; price and total_amount are DECIMAL(_,2) columns.
\* created_at is the column's default NOW(): the time the inserting transaction
\* began.
TradeRow(id, u, s, type, qty, price, total, began) ==
    [id |-> id, user_id |-> u, stock_symbol |-> s, trade_type |-> type,
     quantity |-> qty, price |-> RoundCents(price),
     total_amount |-> RoundNear(total.mills, total.side),
     created_at |-> began]

\* The rows of ts at the indices in keep, in order.
RECURSIVE KeepRows(_, _, _)
KeepRows(ts, keep, i) ==
    IF i > Len(ts) THEN <<>>
    ELSE (IF i \in keep THEN <<ts[i]>> ELSE <<>>) \o KeepRows(ts, keep, i + 1)

\* Variant: a trigger whose DELETE is not restricted to the user of the new row.
OfAnyUser(row, u) == TRUE

\* WHERE user_id = NEW.user_id
OfUser(row, u) == row.user_id = u

\* Trigger enforce_trade_limit: after an insert for user u, DELETE the rows of
\* SELECT id FROM trades WHERE user_id = u ORDER BY created_at DESC OFFSET 15.
\* Rows of equal created_at come in an order the store chooses, so the result
\* is one of a set of tables: a row with TradeLimit or more newer rows goes, a
\* row that has, with those as old as itself, at most TradeLimit stays, and
\* of the rows tied at the boundary as many stay as there is room for.
limit_user_trades(ts, u) ==
    LET mine == {i \in 1..Len(ts) : OfUser(ts[i], u)}
        Newer(i) == {k \in mine : ts[k].created_at > ts[i].created_at}
        NotOlder(i) == {k \in mine : ts[k].created_at >= ts[i].created_at}
        gone == {i \in mine : Cardinality(Newer(i)) >= TradeLimit}
        stay == {i \in mine : Cardinality(NotOlder(i)) <= TradeLimit}
        tied == mine \ (gone \cup stay)
        room == TradeLimit - Cardinality(stay)
        kept == IF tied = {} THEN {{}}
                ELSE {K \in SUBSET tied : Cardinality(K) = room}
    IN  {KeepRows(ts, (1..Len(ts)) \ (gone \cup (tied \ K)), 1) : K \in kept}

\* INSERT INTO trades: the row is added and the trigger runs.
InsertTrade(ts, row) == limit_user_trades(Append(ts, row), row.user_id)

\* Variant: a transaction whose writes stay although it did not commit.
TxWritesNoRollback(out) == {"users", "portfolios", "trades"}

\* The tables a transaction's writes reach once it has ended with outcome out:
\* all of them after a Commit that succeeded, none after the deferred Rollback.
TxWrites(out) == IF out = "ok" THEN {"users", "portfolios", "trades"} ELSE {}

\* A statement of the store may fail; the model lets at most MaxFaults fail.
\* A transaction the store aborts to break a deadlock is not counted.
\* Nor is a row that a CHECK of the table refuses.
MayFail(out) == out \in {"ok", "deadlock", "check"} \/ faultsLeft > 0
FaultsLeft(out) ==
    IF out \in {"ok", "deadlock", "check"} THEN faultsLeft ELSE faultsLeft - 1

\* Variant: a transaction that is left open when processTrade returns.
ReleaseLocksNever(t) == rowLock

\* A transaction t that ends, or that the store aborts at a statement that
\* fails, releases its row locks.
ReleaseLocks(t) == [r \in Rows |-> IF rowLock[r] = t THEN 0 ELSE rowLock[r]]

\* Variant: a SELECT without FOR UPDATE, which waits for no row lock.
RowNeverLocked(r) == TRUE

\* SELECT ... FOR UPDATE gets row r at once only when no transaction holds it.
RowUnlocked(r) == rowLock[r] = 0

\* total is the local totalCost (totalProceeds in SellStock), computed once
\* the transaction has begun.
\* cash and position are the balance and the position the transaction has
\* written, id is the id its INSERT INTO trades drew and gone are the ids of
\* the rows its trigger deleted.
NoTx ==
    [open |-> FALSE, began |-> 0, total |-> Amount(0, 0), cash |-> 0, position |-> NoRow,
     id |-> 0, gone |-> {}]

(***************************************************************************)
(* Initial state: NewTradeProcessor(workers) over a store that holds the    *)
(* accounts; no lock exists yet, no worker runs.                           *)
(***************************************************************************)
Held == Position(2, 150)

\* NewTradeProcessor(workers), and no request made yet.
NewTradeProcessor ==
    /\ workers \in 1..MaxWorkers
    /\ started = FALSE
    /\ stopCh = "open"
    /\ stopPc = "idle"
    /\ wg = 0
    /\ tradeQueue = <<>>
    /\ userLocks = [u \in UserIDs |-> 0]
    /\ mutexCount = 0
    /\ mutexLocked = {}
    /\ mapMutex = [writer |-> 0, readers |-> {}]
    /\ wpc = [w \in Workers |-> "none"]
    /\ cur = [w \in Workers |-> 0]
    /\ userMutex = [w \in Workers |-> 0]
    /\ result = [w \in Workers |-> NoResult]
    /\ tx = [w \in Workers |-> NoTx]
    /\ cpc = [c \in Calls |-> "idle"]
    /\ creq = [c \in Calls |-> NoRequest]
    /\ cres = [c \in Calls |-> NoResult]
    /\ nres = [c \in Calls |-> 0]
    /\ spc = [j \in Sells |-> "idle"]
    /\ sreq = [j \in Sells |-> NoRequest]
    /\ sresp = [j \in Sells |-> [status |-> 0, error |-> "", owned |-> 0, requested |-> 0]]
    /\ stx = [j \in Sells |-> NoTx]
    /\ atStop = [queued |-> {}, inflight |-> {}]
    /\ cleanup = 0

\* The store with the accounts of Accounts, each created with the given
\* balance: the demo user of init.sql under id 1, the others by INSERTs that
\* drew their ids from the sequence.  Account 1 may hold a position.
StoreOf(balance) ==
    /\ cash = [u \in Accounts |-> balance]
    /\ userSeq = Cardinality(Accounts)
    /\ portfolios \in {[u \in Accounts |-> [s \in Symbols |-> IF u = 1 THEN p ELSE NoRow]] :
                        p \in {NoRow, Held}}
    /\ trades = <<>>
    /\ tradeSeq = 0
    /\ rowLock = [r \in Rows |-> 0]
    /\ cash0 = cash
    /\ portfolios0 = portfolios

Boot == NewTradeProcessor /\ StoreOf(200)

Init == Boot /\ faultsLeft = MaxFaults

(***************************************************************************)
(* TradeProcessor: Start, Stop, SubmitTrade.                               *)
(***************************************************************************)
\* The process runs: it has died neither of a fatal error nor of a panic.
Alive == \A w \in Workers : wpc[w] \notin {"fatal", "panicked"}

\* Start: wg.Add(1) and go tp.worker(i), for each of tp.workers workers.
Start ==
    /\ ~started
    /\ started' = TRUE
    /\ wg' = workers
    /\ wpc' = [w \in Workers |-> IF w <= workers THEN "select" ELSE "none"]
    /\ UNCHANGED <<workers, stopCh, stopPc, tradeQueue, lockVars, cur, result, tx,
                   callVars, sellVars, storeVars, initVars, testVars>>

\* The calls whose request is in the queue, and those a worker has dequeued
\* and not yet answered.
Queued == {tradeQueue[i] : i \in 1..Len(tradeQueue)}
InFlight == {c \in Calls : cpc[c] = "waiting" /\ c \notin Queued}

\* Stop: close(tp.stopCh).  main calls Start once and then Stop once.
StopClose ==
    /\ Alive
    /\ started
    /\ stopPc = "idle"
    /\ stopCh' = "closed"
    /\ stopPc' = "waiting"
    /\ atStop' = [queued |-> Queued, inflight |-> InFlight]
    /\ UNCHANGED <<workers, started, wg, tradeQueue, lockVars, workerVars,
                   callVars, sellVars, storeVars, cash0, portfolios0,
                   testVars>>

\* tp.wg.Wait() returns when the counter is zero.
WaitReturns == wg = 0

\* Stop: tp.wg.Wait() returns once the counter is zero.
StopWait ==
    /\ Alive
    /\ stopPc = "waiting"
    /\ WaitReturns
    /\ stopPc' = "returned"
    /\ UNCHANGED <<workers, started, stopCh, wg, tradeQueue, lockVars, workerVars,
                   callVars, sellVars, storeVars, initVars, testVars>>

\* SubmitTrade: resultCh := make(chan TradeResult), with the request the caller
\* passes.  Calls are numbered in the order in which they are made.  Requests
\* arrive while the server runs: main starts the pool before it serves, and
\* calls Stop after the server has returned.
SubmitTrade(c, requests) ==
    /\ Alive
    /\ started
    /\ stopPc = "idle"
    /\ cpc[c] = "idle"
    /\ IF c = 1 THEN TRUE ELSE cpc[c - 1] # "idle"
    /\ \E req \in requests : creq' = [creq EXCEPT ![c] = req]
    /\ cpc' = [cpc EXCEPT ![c] = "sending"]
    /\ UNCHANGED <<poolVars, lockVars, workerVars, cres, nres, sellVars, storeVars,
                   initVars, testVars>>

\* SubmitTrade: tp.tradeQueue <- TradeRequest{...}, which blocks while the
\* buffer is full.
\* Variant: a queue without a capacity.
QueueAlwaysHasRoom == TRUE

\* tp.tradeQueue <- ...: the send proceeds when the buffer is not full
QueueHasRoom == Len(tradeQueue) < QueueCap

Enqueue(c) ==
    /\ Alive
    /\ cpc[c] = "sending"
    /\ QueueHasRoom
    /\ tradeQueue' = Append(tradeQueue, c)
    /\ cpc' = [cpc EXCEPT ![c] = "waiting"]
    /\ UNCHANGED <<workers, started, stopCh, stopPc, wg, lockVars, workerVars,
                   creq, cres, nres, sellVars, storeVars, initVars, testVars>>

(***************************************************************************)
(* The worker goroutine.                                                   *)
(***************************************************************************)
\* select, case <-tp.stopCh: return, and the deferred tp.wg.Done().
\* Variant: a worker that also watches stopCh while it sends a result.
AtSelectOrSend(w) == wpc[w] \in {"select", "send"}

\* The select at the top of the loop: the only place a worker receives from
\* stopCh.
AtSelect(w) == wpc[w] = "select"

WorkerStop(w) ==
    /\ AtSelect(w)
    /\ stopCh = "closed"
    /\ wpc' = [wpc EXCEPT ![w] = "exited"]
    /\ wg' = wg - 1
    /\ UNCHANGED <<workers, started, stopCh, stopPc, tradeQueue, lockVars, cur,
                   result, tx, callVars, sellVars, storeVars, initVars, testVars>>

\* select, case tradeReq := <-tp.tradeQueue.
WorkerDequeue(w) ==
    /\ wpc[w] = "select"
    /\ tradeQueue # <<>>
    /\ cur' = [cur EXCEPT ![w] = Head(tradeQueue)]
    /\ tradeQueue' = Tail(tradeQueue)
    /\ wpc' = [wpc EXCEPT ![w] = "lu_map_lock"]
    /\ UNCHANGED <<workers, started, stopCh, stopPc, wg, lockVars, result, tx,
                   callVars, sellVars, storeVars, initVars, testVars>>

\* The request the worker is processing.
Req(w) == creq[cur[w]]

(***************************************************************************)
(* PortfolioManager.LockUser and UnlockUser, as processTrade calls them.    *)
(***************************************************************************)
\* pm.mapMutex.Lock() succeeds when the RWMutex has no writer and no reader.
MapMutexFree == mapMutex.writer = 0 /\ mapMutex.readers = {}

\* pm.mapMutex.RLock() succeeds when the RWMutex has no writer.
MapMutexReadable == mapMutex.writer = 0

\* Variant: one lock for all users: a Lock waits while any mutex is held.
MutexFreeForAll(m) == mutexLocked = {}

\* Variant: a Lock that does not wait for the holder.
MutexFreeNoWait(m) == TRUE

\* userMutex.Lock() succeeds when the mutex is unlocked.
MutexFree(m) == m \notin mutexLocked

\* Variant: an Unlock that leaves the mutex locked.
AfterUnlockStillLocked(m) == mutexLocked

\* userMutex.Unlock()
AfterUnlock(m) == mutexLocked \ {m}

\* LockUser: pm.mapMutex.Lock()
LockUserMapLock(w) ==
    /\ wpc[w] = "lu_map_lock"
    /\ MapMutexFree
    /\ mapMutex' = [mapMutex EXCEPT !.writer = w]
    /\ wpc' = [wpc EXCEPT ![w] = "lu_fetch"]
    /\ UNCHANGED <<poolVars, userLocks, mutexCount, mutexLocked, userMutex, cur,
                   result, tx, callVars, sellVars, storeVars, initVars, testVars>>

\* Variant: a LockUser that keeps the map's mutex while it locks the user's.
MapMutexKept == mapMutex

\* pm.mapMutex.Unlock()
MapMutexUnlocked == [mapMutex EXCEPT !.writer = 0]

\* Variant: a LockUser that installs a new mutex on every call.
EntryAlwaysMissing(u) == TRUE

\* pm.userLocks[userID] == nil
EntryMissing(u) == userLocks[u] = 0

\* LockUser: create the entry if it is nil, read it, pm.mapMutex.Unlock()
LockUserFetch(w) ==
    LET u == Req(w).UserID
        m == IF EntryMissing(u) THEN mutexCount + 1 ELSE userLocks[u]
    IN  /\ wpc[w] = "lu_fetch"
        /\ userLocks' = [userLocks EXCEPT ![u] = m]
        /\ mutexCount' = IF EntryMissing(u) THEN mutexCount + 1 ELSE mutexCount
        /\ userMutex' = [userMutex EXCEPT ![w] = m]
        /\ mapMutex' = MapMutexUnlocked
        /\ wpc' = [wpc EXCEPT ![w] = "lu_user_lock"]
        /\ UNCHANGED <<poolVars, mutexLocked, cur, result, tx, callVars, sellVars,
                       storeVars, initVars, testVars>>

\* LockUser: userMutex.Lock()
LockUserMutex(w) ==
    /\ wpc[w] = "lu_user_lock"
    /\ MutexFree(userMutex[w])
    /\ mutexLocked' = mutexLocked \cup {userMutex[w]}
    /\ wpc' = [wpc EXCEPT ![w] = "tx_begin"]
    /\ UNCHANGED <<poolVars, userLocks, mutexCount, mapMutex, userMutex, cur,
                   result, tx, callVars, sellVars, storeVars, initVars, testVars>>

\* UnlockUser (deferred): pm.mapMutex.RLock()
UnlockUserRLock(w) ==
    /\ wpc[w] = "ul_rlock"
    /\ MapMutexReadable
    /\ mapMutex' = [mapMutex EXCEPT !.readers = @ \cup {w}]
    /\ wpc' = [wpc EXCEPT ![w] = "ul_fetch"]
    /\ UNCHANGED <<poolVars, userLocks, mutexCount, mutexLocked, userMutex, cur,
                   result, tx, callVars, sellVars, storeVars, initVars, testVars>>

\* UnlockUser: userMutex := pm.userLocks[userID]; pm.mapMutex.RUnlock()
UnlockUserFetch(w) ==
    /\ wpc[w] = "ul_fetch"
    /\ userMutex' = [userMutex EXCEPT ![w] = userLocks[Req(w).UserID]]
    /\ mapMutex' = [mapMutex EXCEPT !.readers = @ \ {w}]
    /\ wpc' = [wpc EXCEPT ![w] = "ul_unlock"]
    /\ UNCHANGED <<poolVars, userLocks, mutexCount, mutexLocked, cur, result, tx,
                   callVars, sellVars, storeVars, initVars, testVars>>

\* A panic that unwinds processTrade and then worker: the deferred calls of
\* both run, no result is returned, and with no recover the process exits.
Panicking == TradeResult(0, FALSE, "panic", Amount(0, 0))

\* Where a worker goes after processTrade's deferred UnlockUser: on to send
\* the result, or, when a panic unwinds, to worker's deferred tp.wg.Done().
AfterDeferred(w) ==
    IF result[w] = Panicking
    THEN [wpc EXCEPT ![w] = "wg_done"]
    ELSE [wpc EXCEPT ![w] = "send"]

\* UnlockUser: if userMutex != nil { userMutex.Unlock() }.  Unlocking a mutex
\* that is not locked is a fatal error of the Go runtime: the process dies.
UnlockUserMutex(w) ==
    /\ wpc[w] = "ul_unlock"
    /\ IF userMutex[w] = 0
       THEN /\ wpc' = AfterDeferred(w)
            /\ UNCHANGED mutexLocked
       ELSE IF userMutex[w] \in mutexLocked
       THEN /\ wpc' = AfterDeferred(w)
            /\ mutexLocked' = AfterUnlock(userMutex[w])
       ELSE /\ wpc' = [x \in Workers |-> "fatal"]
            /\ UNCHANGED mutexLocked
    /\ userMutex' = [userMutex EXCEPT ![w] = 0]
    /\ UNCHANGED <<poolVars, userLocks, mutexCount, mapMutex, cur, result, tx,
                   callVars, sellVars, storeVars, initVars, testVars>>

\* worker: tradeReq.ResultCh <- result, received by SubmitTrade's
\* result := <-resultCh; the channel is unbuffered, the two meet.
\* Variant: one result channel shared by all callers: some waiting caller
\* receives the result.
SharedResultCh(w) == CHOOSE c \in Calls : cpc[c] = "waiting"

\* req.Result: the channel SubmitTrade made for the request the worker holds
ResultCh(w) == cur[w]

Send(w) ==
    LET c == ResultCh(w)
    IN  /\ wpc[w] = "send"
        /\ cpc[c] = "waiting"
        /\ cres' = [cres EXCEPT ![c] = result[w]]
        /\ nres' = [nres EXCEPT ![c] = @ + 1]
        /\ cpc' = [cpc EXCEPT ![c] = "returned"]
        /\ wpc' = [wpc EXCEPT ![w] = "select"]
        /\ cur' = [cur EXCEPT ![w] = 0]
        /\ result' = [result EXCEPT ![w] = NoResult]
        /\ UNCHANGED <<poolVars, lockVars, tx, creq, sellVars, storeVars, initVars, testVars>>

\* A panic unwinds worker: defer tp.wg.Done().  The other goroutines of the
\* process still run.
WorkerPanicDone(w) ==
    /\ wpc[w] = "wg_done"
    /\ wg' = wg - 1
    /\ wpc' = [wpc EXCEPT ![w] = "exit"]
    /\ UNCHANGED <<workers, started, stopCh, stopPc, tradeQueue, lockVars, cur,
                   result, tx, callVars, sellVars, storeVars, initVars, testVars>>

\* No deferred call has recovered the panic: the runtime ends the process,
\* and with it every goroutine.
WorkerPanicExit(w) ==
    /\ wpc[w] = "exit"
    /\ wpc' = [x \in Workers |-> "panicked"]
    /\ UNCHANGED <<poolVars, lockVars, cur, result, tx, callVars, sellVars,
                   storeVars, initVars, testVars>>

\* The store's deadlock: the BUY of worker w holds the account's row and waits
\* for the position's row, which the SELL of handler j holds while it waits
\* for the account's row.  The store aborts one of the two transactions.
Deadlock(w, j) ==
    /\ wpc[w] = "tx_portfolio"
    /\ spc[j] = "sell_balance"
    /\ rowLock[UserRow(sreq[j].UserID)] = WorkerTx(w)
    /\ rowLock[PositionRow(creq[cur[w]].UserID, creq[cur[w]].StockSymbol)] = SellTx(j)

(***************************************************************************)
(* processTrade between LockUser and the deferred UnlockUser: one BUY in    *)
(* one transaction.  Every statement is a round trip to the store, during  *)
(* which the other goroutines run.  A statement of the store may fail      *)
(* (out); a statement that needs a row locked by another transaction waits *)
(* for it; the locks a transaction has taken stay until it ends.  What a   *)
(* transaction has written is kept in its record and reaches the tables at *)
(* Commit.  A statement that fails aborts the transaction in the store,    *)
(* which releases its locks there; a return the code decides on itself     *)
(* (no row, too little cash, too few shares) leaves the locks to the       *)
(* deferred tx.Rollback(), which ends the transaction on every return      *)
(* before Commit.                                                          *)
(***************************************************************************)
Failure(err) == TradeResult(0, FALSE, err, Amount(0, 0))

\* NOW() at db.DB.Begin(), for a transaction of user u.  The store compares
\* created_at only among the rows of one user, so time is kept per user: a
\* time later than that of every transaction of u begun before, of which the
\* store knows those still open and those that left a row.
Latest(S) == IF S = {} THEN 0 ELSE CHOOSE y \in S : \A z \in S : y >= z

Now(u) ==
    1 + Latest({tx[w].began : w \in {x \in Workers : tx[x].open /\ Req(x).UserID = u}}
               \cup {stx[j].began : j \in {k \in Sells : stx[k].open /\ sreq[k].UserID = u}}
               \cup {trades[i].created_at :
                        i \in {k \in 1..Len(trades) : trades[k].user_id = u}})

\* The outcomes of INSERT INTO trades: the row is inserted; the statement
\* fails before the store has drawn the id; or the store refuses the row
\* after it has drawn the id.  CHECK (quantity > 0) refuses every row of a
\* request without shares.
TradeOutcomes(req) ==
    IF req.Quantity > 0 THEN {"ok", "trade_err", "trade_refused"} ELSE {"check"}

\* nextval('trades_id_seq'), the default of trades.id: a sequence is not
\* part of the transaction, so an id that was drawn is never drawn again.
NextVal(out) == IF out = "trade_err" THEN tradeSeq ELSE tradeSeq + 1

\* The ids of the rows the trigger deletes when row is inserted into ts.
TriggerDeletes(ts, row) ==
    LET all == Append(ts, row)
    IN  {{all[i].id : i \in 1 .. Len(all)} \ {after[i].id : i \in 1 .. Len(after)} :
            after \in InsertTrade(ts, row)}

\* The table ts once a transaction that inserted row, and whose trigger
\* deleted the rows with the ids in gone, has committed.
CommitTrade(ts, row, gone) ==
    LET all == Append(ts, row)
    IN  KeepRows(all, {i \in 1 .. Len(all) : all[i].id \notin gone}, 1)

\* The row of trades the BUY of worker w inserts, under the id it drew.
WorkerInsert(w) ==
    TradeRow(tx[w].id, Req(w).UserID, Req(w).StockSymbol, "BUY", Req(w).Quantity,
             Req(w).Price, tx[w].total, tx[w].began)

\* Variant: a missing row reported like any other error of the query.
NoRowsAsDatabaseError == "Database error"

\* if err == sql.ErrNoRows: the SELECT found no row of users
NoRowsError == "User not found"

\* tx, err := db.DB.Begin(), which fixes NOW() for the transaction and
\* takes no lock; a call on a nil db.DB panics.
TxBegin(w) ==
    LET u == Req(w).UserID
    IN  /\ wpc[w] = "tx_begin"
        /\ \E out \in {"ok", "panic", "begin_err"} :
              /\ MayFail(out)
              /\ faultsLeft' = FaultsLeft(out)
              /\ CASE out = "ok" ->
                        /\ tx' = [tx EXCEPT ![w] =
                                     [NoTx EXCEPT !.open = TRUE, !.began = Now(u),
                                                  !.total = TotalCost(Req(w))]]
                        /\ wpc' = [wpc EXCEPT ![w] = "tx_balance"]
                        /\ UNCHANGED result
                   [] out = "panic" ->
                        /\ result' = [result EXCEPT ![w] = Panicking]
                        /\ wpc' = [wpc EXCEPT ![w] = "ul_rlock"]
                        /\ UNCHANGED tx
                   [] out = "begin_err" ->
                        /\ result' = [result EXCEPT ![w] = Failure("Transaction failed")]
                        /\ wpc' = [wpc EXCEPT ![w] = "ul_rlock"]
                        /\ UNCHANGED tx
        /\ UNCHANGED <<poolVars, lockVars, cur, callVars, sellVars, cash, portfolios,
                       trades, tradeSeq, rowLock, initVars, testVars>>

\* SELECT cash_balance FROM users WHERE id = $1 FOR UPDATE, which waits for
\* the row's lock and takes it; the funds check.  A return leaves the
\* transaction, and the lock, to the deferred Rollback.
TxBalance(w) ==
    LET req == Req(w)
        u == req.UserID
        Fail(err) == /\ result' = [result EXCEPT ![w] = Failure(err)]
                     /\ wpc' = [wpc EXCEPT ![w] = "tx_rollback"]
    IN  /\ wpc[w] = "tx_balance"
        /\ \E out \in {"ok", "db_err"} :
              /\ MayFail(out)
              /\ faultsLeft' = FaultsLeft(out)
              /\ IF out = "db_err"
                 THEN Fail("Database error") /\ UNCHANGED rowLock
                 ELSE IF u \notin DOMAIN cash
                 THEN Fail(NoRowsError) /\ UNCHANGED rowLock
                 ELSE /\ RowUnlocked(UserRow(u))
                      /\ rowLock' = [rowLock EXCEPT ![UserRow(u)] = WorkerTx(w)]
                      /\ IF InsufficientFunds(cash[u], tx[w].total)
                         THEN Fail("Insufficient funds")
                         ELSE /\ wpc' = [wpc EXCEPT ![w] = "tx_debit"]
                              /\ UNCHANGED result
        /\ UNCHANGED <<poolVars, lockVars, cur, tx, callVars, sellVars, cash, portfolios,
                       trades, tradeSeq, initVars, testVars>>

\* UPDATE users SET cash_balance = cash_balance - $1 WHERE id = $2.  A
\* statement that fails has aborted the transaction, which has lost its
\* locks.
TxDebit(w) ==
    LET u == Req(w).UserID
    IN  /\ wpc[w] = "tx_debit"
        /\ \E out \in {"ok", "update_err"} :
              /\ MayFail(out)
              /\ faultsLeft' = FaultsLeft(out)
              /\ IF out = "ok"
                 THEN /\ tx' = [tx EXCEPT ![w].cash = Debit(cash[u], tx[w].total)]
                      /\ wpc' = [wpc EXCEPT ![w] = "tx_portfolio"]
                      /\ UNCHANGED <<result, rowLock>>
                 ELSE /\ result' = [result EXCEPT ![w] = Failure("Failed to update balance")]
                      /\ wpc' = [wpc EXCEPT ![w] = "tx_rollback"]
                      /\ rowLock' = ReleaseLocks(WorkerTx(w))
                      /\ UNCHANGED tx
        /\ UNCHANGED <<poolVars, lockVars, cur, callVars, sellVars, cash, portfolios,
                       trades, tradeSeq, initVars, testVars>>

\* INSERT INTO portfolios ... ON CONFLICT ... DO UPDATE, which waits for the
\* lock of the row it finds and holds the row it writes.  A transaction the
\* store aborts, for a statement that fails or to break a deadlock, has lost
\* its locks.
TxPortfolio(w) ==
    LET req == Req(w)
        u == req.UserID
        s == req.StockSymbol
    IN  /\ wpc[w] = "tx_portfolio"
        /\ \E out \in {"ok", "portfolio_err", "deadlock"} :
              /\ MayFail(out)
              /\ faultsLeft' = FaultsLeft(out)
              /\ CASE out = "ok" ->
                        /\ \/ ~portfolios[u][s].exists
                           \/ rowLock[PositionRow(u, s)] = 0
                        /\ tx' = [tx EXCEPT ![w].position =
                                     Upsert(portfolios[u][s], req.Quantity, req.Price)]
                        /\ rowLock' = [rowLock EXCEPT ![PositionRow(u, s)] = WorkerTx(w)]
                        /\ wpc' = [wpc EXCEPT ![w] = "tx_trade"]
                        /\ UNCHANGED result
                   [] out = "portfolio_err" ->
                        /\ result' = [result EXCEPT ![w] =
                                         Failure("Failed to update portfolio")]
                        /\ wpc' = [wpc EXCEPT ![w] = "tx_rollback"]
                        /\ rowLock' = ReleaseLocks(WorkerTx(w))
                        /\ UNCHANGED tx
                   [] out = "deadlock" ->
                        /\ \E j \in Sells : Deadlock(w, j)
                        /\ result' = [result EXCEPT ![w] =
                                         Failure("Failed to update portfolio")]
                        /\ wpc' = [wpc EXCEPT ![w] = "tx_rollback"]
                        /\ rowLock' = ReleaseLocks(WorkerTx(w))
                        /\ UNCHANGED tx
        /\ UNCHANGED <<poolVars, lockVars, cur, callVars, sellVars, cash, portfolios,
                       trades, tradeSeq, initVars, testVars>>

\* INSERT INTO trades ... RETURNING id: the id is drawn, the row inserted and
\* the trigger run.  An INSERT that fails or is refused has aborted the
\* transaction, which has lost its locks.
TxTrade(w) ==
    /\ wpc[w] = "tx_trade"
    /\ \E out \in TradeOutcomes(Req(w)) :
          /\ MayFail(out)
          /\ faultsLeft' = FaultsLeft(out)
          /\ tradeSeq' = NextVal(out)
          /\ IF out = "ok"
             THEN /\ \E gone \in TriggerDeletes(trades,
                                    [WorkerInsert(w) EXCEPT !.id = NextVal(out)]) :
                        tx' = [tx EXCEPT ![w].id = NextVal(out), ![w].gone = gone]
                  /\ wpc' = [wpc EXCEPT ![w] = "tx_commit"]
                  /\ UNCHANGED <<result, rowLock>>
             ELSE /\ result' = [result EXCEPT ![w] = Failure("Failed to record trade")]
                  /\ wpc' = [wpc EXCEPT ![w] = "tx_rollback"]
                  /\ rowLock' = ReleaseLocks(WorkerTx(w))
                  /\ UNCHANGED tx
    /\ UNCHANGED <<poolVars, lockVars, cur, callVars, sellVars, cash, portfolios,
                   trades, initVars, testVars>>

\* tx.Commit(), which ends the transaction whether it succeeds or not; the
\* deferred Rollback then finds it ended.
TxCommit(w) ==
    LET u == Req(w).UserID
        s == Req(w).StockSymbol
    IN  /\ wpc[w] = "tx_commit"
        /\ \E out \in {"ok", "commit_err"} :
              /\ MayFail(out)
              /\ faultsLeft' = FaultsLeft(out)
              /\ cash' = IF "users" \in TxWrites(out)
                         THEN SetBalance(cash, u, tx[w].cash) ELSE cash
              /\ portfolios' = IF "portfolios" \in TxWrites(out)
                               THEN [portfolios EXCEPT ![u][s] = tx[w].position]
                               ELSE portfolios
              /\ trades' = IF "trades" \in TxWrites(out)
                           THEN CommitTrade(trades, WorkerInsert(w), tx[w].gone)
                           ELSE trades
              /\ result' = [result EXCEPT ![w] =
                               IF out = "ok"
                               THEN TradeResult(tx[w].id, TRUE, "", tx[w].total)
                               ELSE Failure("Transaction commit failed")]
        /\ rowLock' = ReleaseLocks(WorkerTx(w))
        /\ tx' = [tx EXCEPT ![w] = NoTx]
        /\ wpc' = [wpc EXCEPT ![w] = "ul_rlock"]
        /\ UNCHANGED <<poolVars, lockVars, cur, callVars, sellVars, tradeSeq, initVars,
                       testVars>>

\* The deferred tx.Rollback() of a return before Commit: the transaction
\* ends, its writes are dropped and the locks it still has are released.
TxRollback(w) ==
    /\ wpc[w] = "tx_rollback"
    /\ rowLock' = ReleaseLocks(WorkerTx(w))
    /\ tx' = [tx EXCEPT ![w] = NoTx]
    /\ wpc' = [wpc EXCEPT ![w] = "ul_rlock"]
    /\ UNCHANGED <<poolVars, lockVars, cur, result, callVars, sellVars, cash,
                   portfolios, trades, tradeSeq, faultsLeft, initVars, testVars>>

(***************************************************************************)
(* The handlers SellStock and BuyStock, run by the HTTP server's goroutine *)
(* of the request, each one order in one transaction.                      *)
(***************************************************************************)
Response(status, err, owned, requested) ==
    [status |-> status, error |-> err, owned |-> owned, requested |-> requested]

\* c.JSON(status, ...) and return, which leaves the transaction to the
\* deferred Rollback.
Answer(j, rollback, r) ==
    /\ sresp' = [sresp EXCEPT ![j] = r]
    /\ spc' = [spc EXCEPT ![j] = rollback]

\* The row of trades handler j inserts, under the id it drew.
HandlerInsert(j, type) ==
    TradeRow(stx[j].id, sreq[j].UserID, sreq[j].StockSymbol, type, sreq[j].Quantity,
             sreq[j].Price, stx[j].total, stx[j].began)

\* c.ShouldBindJSON(&req); db.DB.Begin(), which fixes NOW() for the
\* transaction and takes no lock
HandlerBegin(j, requests, first) ==
    /\ Alive
    /\ spc[j] = "idle"
    /\ IF j = 1 THEN TRUE ELSE spc[j - 1] # "idle"
    /\ \E req \in requests, out \in {"ok", "begin_err"} :
          /\ MayFail(out)
          /\ faultsLeft' = FaultsLeft(out)
          /\ sreq' = [sreq EXCEPT ![j] = req]
          /\ IF out = "begin_err"
             THEN /\ sresp' = [sresp EXCEPT ![j] =
                                  Response(500, "Transaction failed", 0, 0)]
                  /\ spc' = [spc EXCEPT ![j] = "done"]
                  /\ UNCHANGED stx
             ELSE /\ stx' = [stx EXCEPT ![j] =
                                [NoTx EXCEPT !.open = TRUE, !.began = Now(req.UserID),
                                             !.total = TotalCost(req)]]
                  /\ spc' = [spc EXCEPT ![j] = first]
                  /\ UNCHANGED sresp
    /\ UNCHANGED <<poolVars, lockVars, workerVars, callVars, cash, portfolios,
                   trades, tradeSeq, rowLock, initVars, testVars>>

\* INSERT INTO trades ... RETURNING id, in a handler.  An INSERT that fails
\* or is refused has aborted the transaction, which has lost its locks.
HandlerTrade(j, type, at, commit, rollback) ==
    /\ Alive
    /\ spc[j] = at
    /\ \E out \in TradeOutcomes(sreq[j]) :
          /\ MayFail(out)
          /\ faultsLeft' = FaultsLeft(out)
          /\ tradeSeq' = NextVal(out)
          /\ IF out = "ok"
             THEN /\ \E gone \in TriggerDeletes(trades,
                                    [HandlerInsert(j, type) EXCEPT !.id = NextVal(out)]) :
                        stx' = [stx EXCEPT ![j].id = NextVal(out), ![j].gone = gone]
                  /\ spc' = [spc EXCEPT ![j] = commit]
                  /\ UNCHANGED <<sresp, rowLock>>
             ELSE /\ Answer(j, rollback, Response(500, "Failed to record trade", 0, 0))
                  /\ rowLock' = ReleaseLocks(SellTx(j))
                  /\ UNCHANGED stx
    /\ UNCHANGED <<poolVars, lockVars, workerVars, callVars, sreq, cash, portfolios,
                   trades, initVars, testVars>>

\* tx.Commit() and the answer of a handler
HandlerCommit(j, type, at) ==
    LET u == sreq[j].UserID
        s == sreq[j].StockSymbol
    IN  /\ Alive
        /\ spc[j] = at
        /\ \E out \in {"ok", "commit_err"} :
              /\ MayFail(out)
              /\ faultsLeft' = FaultsLeft(out)
              /\ cash' = IF "users" \in TxWrites(out)
                         THEN SetBalance(cash, u, stx[j].cash) ELSE cash
              /\ portfolios' = IF "portfolios" \in TxWrites(out)
                               THEN [portfolios EXCEPT ![u][s] = stx[j].position]
                               ELSE portfolios
              /\ trades' = IF "trades" \in TxWrites(out)
                           THEN CommitTrade(trades, HandlerInsert(j, type), stx[j].gone)
                           ELSE trades
              /\ sresp' = [sresp EXCEPT ![j] =
                              IF out = "ok"
                              THEN Response(200, "", 0, 0)
                              ELSE Response(500, "Transaction commit failed", 0, 0)]
        /\ rowLock' = ReleaseLocks(SellTx(j))
        /\ stx' = [stx EXCEPT ![j] = NoTx]
        /\ spc' = [spc EXCEPT ![j] = "done"]
        /\ UNCHANGED <<poolVars, lockVars, workerVars, callVars, sreq, tradeSeq,
                       initVars, testVars>>

\* The deferred tx.Rollback() of a handler that returns before Commit
HandlerRollback(j, at) ==
    /\ Alive
    /\ spc[j] = at
    /\ rowLock' = ReleaseLocks(SellTx(j))
    /\ stx' = [stx EXCEPT ![j] = NoTx]
    /\ spc' = [spc EXCEPT ![j] = "done"]
    /\ UNCHANGED <<poolVars, lockVars, workerVars, callVars, sreq, sresp, cash,
                   portfolios, trades, tradeSeq, faultsLeft, initVars, testVars>>

(***************************************************************************)
(* SellStock, the handler of POST /api/trades/sell.                        *)
(***************************************************************************)
\* Variant: a missing position reported as a position that is too small.
NoPositionAsTooFew == "Insufficient shares"

\* if err == sql.ErrNoRows: the SELECT found no row of portfolios
NoPositionError == "You don't own this stock"

\* The server serves while the pool runs.
SellStockBegin(j, requests) ==
    /\ started
    /\ stopPc = "idle"
    /\ HandlerBegin(j, requests, "sell_position")

\* SELECT quantity FROM portfolios ... FOR UPDATE, which waits for the row's
\* lock and takes it; the shares check.
SellStockPosition(j) ==
    LET req == sreq[j]
        u == req.UserID
        s == req.StockSymbol
        row == IF u \in DOMAIN portfolios THEN portfolios[u][s] ELSE NoRow
    IN  /\ Alive
        /\ spc[j] = "sell_position"
        /\ \E out \in {"ok", "db_err"} :
              /\ MayFail(out)
              /\ faultsLeft' = FaultsLeft(out)
              /\ IF out = "db_err"
                 THEN /\ Answer(j, "sell_rollback", Response(500, "Database error", 0, 0))
                      /\ UNCHANGED rowLock
                 ELSE IF ~row.exists
                 THEN /\ Answer(j, "sell_rollback", Response(400, NoPositionError, 0, 0))
                      /\ UNCHANGED rowLock
                 ELSE /\ RowUnlocked(PositionRow(u, s))
                      /\ rowLock' = [rowLock EXCEPT ![PositionRow(u, s)] = SellTx(j)]
                      /\ IF InsufficientShares(row.quantity, req.Quantity)
                         THEN Answer(j, "sell_rollback",
                                     Response(400, "Insufficient shares",
                                              row.quantity, req.Quantity))
                         ELSE /\ spc' = [spc EXCEPT ![j] = "sell_portfolio"]
                              /\ UNCHANGED sresp
        /\ UNCHANGED <<poolVars, lockVars, workerVars, callVars, sreq, stx, cash,
                       portfolios, trades, tradeSeq, initVars, testVars>>

\* DELETE FROM portfolios, or UPDATE portfolios SET quantity = $1.  A
\* statement that fails has aborted the transaction, which has lost its
\* locks.
SellStockPortfolio(j) ==
    LET req == sreq[j]
    IN  /\ Alive
        /\ spc[j] = "sell_portfolio"
        /\ \E out \in {"ok", "portfolio_err"} :
              /\ MayFail(out)
              /\ faultsLeft' = FaultsLeft(out)
              /\ IF out = "ok"
                 THEN /\ stx' = [stx EXCEPT ![j].position =
                                    SellPosition(portfolios[req.UserID][req.StockSymbol],
                                                 req.Quantity)]
                      /\ spc' = [spc EXCEPT ![j] = "sell_balance"]
                      /\ UNCHANGED <<sresp, rowLock>>
                 ELSE /\ Answer(j, "sell_rollback",
                                Response(500, "Failed to update portfolio", 0, 0))
                      /\ rowLock' = ReleaseLocks(SellTx(j))
                      /\ UNCHANGED stx
        /\ UNCHANGED <<poolVars, lockVars, workerVars, callVars, sreq, cash, portfolios,
                       trades, tradeSeq, initVars, testVars>>

\* UPDATE users SET cash_balance = cash_balance + $1 WHERE id = $2, which
\* waits for the row's lock and takes it.  A transaction the store aborts,
\* for a statement that fails or to break a deadlock, has lost its locks.
SellStockBalance(j) ==
    LET u == sreq[j].UserID
    IN  /\ Alive
        /\ spc[j] = "sell_balance"
        /\ \E out \in {"ok", "balance_err", "deadlock"} :
              /\ MayFail(out)
              /\ faultsLeft' = FaultsLeft(out)
              /\ CASE out = "ok" ->
                        /\ rowLock[UserRow(u)] = 0
                        /\ stx' = [stx EXCEPT ![j].cash = Credit(cash[u], stx[j].total)]
                        /\ rowLock' = [rowLock EXCEPT ![UserRow(u)] = SellTx(j)]
                        /\ spc' = [spc EXCEPT ![j] = "sell_trade"]
                        /\ UNCHANGED sresp
                   [] out = "balance_err" ->
                        /\ Answer(j, "sell_rollback",
                                  Response(500, "Failed to update balance", 0, 0))
                        /\ rowLock' = ReleaseLocks(SellTx(j))
                        /\ UNCHANGED stx
                   [] out = "deadlock" ->
                        /\ \E w \in Workers : Deadlock(w, j)
                        /\ Answer(j, "sell_rollback",
                                  Response(500, "Failed to update balance", 0, 0))
                        /\ rowLock' = ReleaseLocks(SellTx(j))
                        /\ UNCHANGED stx
        /\ UNCHANGED <<poolVars, lockVars, workerVars, callVars, sreq, cash, portfolios,
                       trades, tradeSeq, initVars, testVars>>

\* The steps of SellStock after it has begun its transaction: its four
\* statements, tx.Commit() and the deferred tx.Rollback().
SellStock(j) ==
    \/ SellStockPosition(j)
    \/ SellStockPortfolio(j)
    \/ SellStockBalance(j)
    \/ HandlerTrade(j, "SELL", "sell_trade", "sell_commit", "sell_rollback")
    \/ HandlerCommit(j, "SELL", "sell_commit")
    \/ HandlerRollback(j, "sell_rollback")

(***************************************************************************)
(* BuyStock, the handler of POST /api/trades/buy in package handlers: the   *)
(* same transaction as processTrade, without LockUser.                     *)
(***************************************************************************)
BuyStockBegin(j, requests) == HandlerBegin(j, requests, "buy_balance")

\* SELECT cash_balance FROM users WHERE id = $1 FOR UPDATE; the funds check
BuyStockBalance(j) ==
    LET u == sreq[j].UserID
    IN  /\ Alive
        /\ spc[j] = "buy_balance"
        /\ \E out \in {"ok", "db_err"} :
              /\ MayFail(out)
              /\ faultsLeft' = FaultsLeft(out)
              /\ IF out = "db_err"
                 THEN /\ Answer(j, "buy_rollback", Response(500, "Database error", 0, 0))
                      /\ UNCHANGED rowLock
                 ELSE IF u \notin DOMAIN cash
                 THEN /\ Answer(j, "buy_rollback", Response(404, "User not found", 0, 0))
                      /\ UNCHANGED rowLock
                 ELSE /\ RowUnlocked(UserRow(u))
                      /\ rowLock' = [rowLock EXCEPT ![UserRow(u)] = SellTx(j)]
                      /\ IF InsufficientFunds(cash[u], stx[j].total)
                         THEN Answer(j, "buy_rollback",
                                     Response(400, "Insufficient funds", 0, 0))
                         ELSE /\ spc' = [spc EXCEPT ![j] = "buy_debit"]
                              /\ UNCHANGED sresp
        /\ UNCHANGED <<poolVars, lockVars, workerVars, callVars, sreq, stx, cash,
                       portfolios, trades, tradeSeq, initVars, testVars>>

\* UPDATE users SET cash_balance = cash_balance - $1 WHERE id = $2.  A
\* statement that fails has aborted the transaction, which has lost its
\* locks.
BuyStockDebit(j) ==
    LET u == sreq[j].UserID
    IN  /\ Alive
        /\ spc[j] = "buy_debit"
        /\ \E out \in {"ok", "update_err"} :
              /\ MayFail(out)
              /\ faultsLeft' = FaultsLeft(out)
              /\ IF out = "ok"
                 THEN /\ stx' = [stx EXCEPT ![j].cash = Debit(cash[u], stx[j].total)]
                      /\ spc' = [spc EXCEPT ![j] = "buy_portfolio"]
                      /\ UNCHANGED <<sresp, rowLock>>
                 ELSE /\ Answer(j, "buy_rollback",
                                Response(500, "Failed to update balance", 0, 0))
                      /\ rowLock' = ReleaseLocks(SellTx(j))
                      /\ UNCHANGED stx
        /\ UNCHANGED <<poolVars, lockVars, workerVars, callVars, sreq, cash, portfolios,
                       trades, tradeSeq, initVars, testVars>>

\* INSERT INTO portfolios ... ON CONFLICT ... DO UPDATE.  A statement that
\* fails has aborted the transaction, which has lost its locks.
BuyStockPortfolio(j) ==
    LET req == sreq[j]
        u == req.UserID
        s == req.StockSymbol
    IN  /\ Alive
        /\ spc[j] = "buy_portfolio"
        /\ \E out \in {"ok", "portfolio_err"} :
              /\ MayFail(out)
              /\ faultsLeft' = FaultsLeft(out)
              /\ IF out = "ok"
                 THEN /\ \/ ~portfolios[u][s].exists
                         \/ rowLock[PositionRow(u, s)] = 0
                      /\ stx' = [stx EXCEPT ![j].position =
                                    Upsert(portfolios[u][s], req.Quantity, req.Price)]
                      /\ rowLock' = [rowLock EXCEPT ![PositionRow(u, s)] = SellTx(j)]
                      /\ spc' = [spc EXCEPT ![j] = "buy_trade"]
                      /\ UNCHANGED sresp
                 ELSE /\ Answer(j, "buy_rollback",
                                Response(500, "Failed to update portfolio", 0, 0))
                      /\ rowLock' = ReleaseLocks(SellTx(j))
                      /\ UNCHANGED stx
        /\ UNCHANGED <<poolVars, lockVars, workerVars, callVars, sreq, cash, portfolios,
                       trades, tradeSeq, initVars, testVars>>

\* The steps of BuyStock after it has begun its transaction: its four
\* statements, tx.Commit() and the deferred tx.Rollback().
BuyStock(j) ==
    \/ BuyStockBalance(j)
    \/ BuyStockDebit(j)
    \/ BuyStockPortfolio(j)
    \/ HandlerTrade(j, "BUY", "buy_trade", "buy_commit", "buy_rollback")
    \/ HandlerCommit(j, "BUY", "buy_commit")
    \/ HandlerRollback(j, "buy_rollback")

(***************************************************************************)
(* The helpers of package db with which the tests fill and empty the store *)
(* around a pool: CreateTestUser and CleanupTestDB.                        *)
(***************************************************************************)
\* INSERT INTO users (username, email, cash_balance) VALUES ($1, $2, $3)
\* RETURNING id.  The id is the next value of the sequence, which is drawn
\* also when the row is refused because the id is taken; the demo user was
\* inserted under id 1 without the sequence.  The model has rows for the ids
\* of Accounts.
CreateTestUser(balance) ==
    LET id == userSeq + 1
        Insert(balances) == [u \in DOMAIN balances \cup {id} |->
                                IF u = id THEN balance ELSE balances[u]]
    IN  /\ Alive
        /\ id \in Accounts
        /\ \E out \in {"ok", "insert_err"} :
              /\ MayFail(out)
              /\ faultsLeft' = FaultsLeft(out)
              /\ IF out = "insert_err"
                 THEN UNCHANGED <<userSeq, cash, cash0>>
                 ELSE /\ userSeq' = id
                      /\ IF id \in DOMAIN cash
                         THEN UNCHANGED <<cash, cash0>>
                         ELSE cash' = Insert(cash) /\ cash0' = Insert(cash0)
        /\ UNCHANGED <<poolVars, lockVars, workerVars, callVars, sellVars, portfolios,
                       trades, tradeSeq, rowLock, portfolios0, atStop, cleanup>>

\* for _, table := range []string{"trades", "portfolios", "users"}:
\* DELETE FROM table WHERE id > 0, each statement a transaction of its own
\* that waits for the locks on the rows it deletes; an error is logged and
\* the loop goes on.  Deleting a user deletes the rows that reference it.
CleanupTestDB ==
    LET Free(rows) == \A r \in rows : RowUnlocked(r)
        held == {r \in Rows : r[1] = "portfolios" /\ portfolios[r[2]][r[3]].exists}
        none == [u \in DOMAIN portfolios |-> [s \in Symbols |-> NoRow]]
    IN  /\ Alive
        /\ \E out \in {"ok", "delete_err"} :
              /\ MayFail(out)
              /\ faultsLeft' = FaultsLeft(out)
              /\ IF out = "delete_err"
                 THEN UNCHANGED <<cash, portfolios, trades>>
                 ELSE IF cleanup = 0
                 THEN /\ \A w \in Workers : tx[w].gone = {}
                      /\ \A j \in Sells : stx[j].gone = {}
                      /\ trades' = <<>>
                      /\ UNCHANGED <<cash, portfolios>>
                 ELSE IF cleanup = 1
                 THEN /\ Free(held)
                      /\ portfolios' = none
                      /\ UNCHANGED <<cash, trades>>
                 ELSE /\ Free({UserRow(u) : u \in DOMAIN cash} \cup held)
                      /\ cash' = [u \in {} |-> 0]
                      /\ portfolios' = none
                      /\ trades' = <<>>
        /\ cleanup' = (cleanup + 1) % 3
        /\ UNCHANGED <<poolVars, lockVars, workerVars, callVars, sellVars, tradeSeq,
                       rowLock, initVars, userSeq>>

(***************************************************************************)
(* The system.  The steps of the pool's goroutines and of the store are     *)
(* the same in every specification; the specifications differ in what the  *)
(* clients submit and in whether Stop is called.                           *)
(***************************************************************************)
WorkerStep(w) ==
    \/ WorkerDequeue(w)
    \/ LockUserMapLock(w)
    \/ LockUserFetch(w)
    \/ LockUserMutex(w)
    \/ TxBegin(w)
    \/ TxBalance(w)
    \/ TxDebit(w)
    \/ TxPortfolio(w)
    \/ TxTrade(w)
    \/ TxCommit(w)
    \/ TxRollback(w)
    \/ UnlockUserRLock(w)
    \/ UnlockUserFetch(w)
    \/ UnlockUserMutex(w)
    \/ Send(w)

\* The steps of a worker that a panic unwinds.
WorkerPanic(w) ==
    \/ WorkerPanicDone(w)
    \/ WorkerPanicExit(w)

\* The pool under load and shutdown: buys of whole-cent prices for existing
\* accounts, a store that does not fail, Stop called at any moment.
PoolRequests == {BuyRequest(u, "AAPL", 1, 1000) : u \in Accounts}

PoolInit == Boot /\ faultsLeft = 0 /\ portfolios[1]["AAPL"] = NoRow

PoolNext ==
    \/ Start
    \/ StopClose
    \/ StopWait
    \/ \E c \in Calls : SubmitTrade(c, PoolRequests)
    \/ \E c \in Calls : Enqueue(c)
    \/ \E w \in Workers : WorkerStop(w)
    \/ \E w \in Workers : WorkerStep(w)

PoolSpec == PoolInit /\ [][PoolNext]_vars

\* The pool under shutdown with a store that may fail and a db.DB that may
\* be nil, so that Begin panics inside processTrade: Stop called at any
\* moment, also while the panic unwinds the worker.
CrashInit == Boot /\ faultsLeft = MaxFaults /\ portfolios[1]["AAPL"] = NoRow

CrashNext ==
    \/ Start
    \/ StopClose
    \/ StopWait
    \/ \E c \in 1 .. LedgerCalls : SubmitTrade(c, PoolRequests)
    \/ \E c \in 1 .. LedgerCalls : Enqueue(c)
    \/ \E w \in Workers : WorkerStop(w)
    \/ \E w \in Workers : WorkerStep(w)
    \/ \E w \in Workers : WorkerPanic(w)

CrashSpec == CrashInit /\ [][CrashNext]_vars

\* The pool while it serves: Stop is not called.  Buys of one account come
\* through the pool, a sell of the same account through SellStock, so that
\* every order waits for the others; statements of the store may fail, and
\* the store aborts a transaction to break a deadlock.
ServeBuys == {BuyRequest(1, "AAPL", 1, 1000)}
ServeSells == {BuyRequest(1, "AAPL", 1, 1000)}

ServeInit == Init /\ portfolios[1]["AAPL"] = Held

ServeNext ==
    \/ Start
    \/ \E c \in 1 .. LedgerCalls : SubmitTrade(c, ServeBuys)
    \/ \E c \in 1 .. LedgerCalls : Enqueue(c)
    \/ \E w \in Workers : WorkerStep(w)
    \/ \E w \in Workers : WorkerPanic(w)
    \/ \E j \in Sells : SellStockBegin(j, ServeSells)
    \/ \E j \in Sells : SellStock(j)

\* The Go scheduler runs every goroutine that can take a step: a worker that
\* can proceed does, and so do a sender when the queue has room and the
\* goroutine of an HTTP request.
Fairness ==
    /\ \A c \in 1 .. LedgerCalls : WF_vars(Enqueue(c))
    /\ \A w \in Workers : WF_vars(WorkerStep(w))
    /\ \A w \in Workers : WF_vars(WorkerPanic(w))
    /\ \A j \in Sells : WF_vars(SellStock(j))

ServeSpec == ServeInit /\ [][ServeNext]_vars /\ Fairness

\* The pool under a burst: QueueCap - 1 callers have sent their request before
\* the only worker took its first step (the state after Start and that many
\* SubmitTrade calls), and MaxBlocked + 1 further callers arrive, so that the
\* queue fills and senders block.  All orders are buys of account 1.
BurstCalls == 1 .. QueueCap + MaxBlocked
BurstRequest == BuyRequest(1, "AAPL", 1, 1000)

\* The callers that arrive during the burst.
Arrivals == {c \in BurstCalls : c >= QueueCap}

BurstInit ==
    /\ workers = 1
    /\ started = TRUE
    /\ stopCh = "open"
    /\ stopPc = "idle"
    /\ wg = workers
    /\ tradeQueue = [i \in 1 .. QueueCap - 1 |-> i]
    /\ userLocks = [u \in UserIDs |-> 0]
    /\ mutexCount = 0
    /\ mutexLocked = {}
    /\ mapMutex = [writer |-> 0, readers |-> {}]
    /\ wpc = [w \in Workers |-> IF w <= workers THEN "select" ELSE "none"]
    /\ cur = [w \in Workers |-> 0]
    /\ userMutex = [w \in Workers |-> 0]
    /\ result = [w \in Workers |-> NoResult]
    /\ tx = [w \in Workers |-> NoTx]
    /\ cpc = [c \in BurstCalls |-> IF c < QueueCap THEN "waiting" ELSE "idle"]
    /\ creq = [c \in BurstCalls |-> IF c < QueueCap THEN BurstRequest ELSE NoRequest]
    /\ cres = [c \in BurstCalls |-> NoResult]
    /\ nres = [c \in BurstCalls |-> 0]
    /\ spc = [j \in Sells |-> "idle"]
    /\ sreq = [j \in Sells |-> NoRequest]
    /\ sresp = [j \in Sells |-> Response(0, "", 0, 0)]
    /\ stx = [j \in Sells |-> NoTx]
    /\ cash = [u \in Accounts |-> 200]
    /\ portfolios = [u \in Accounts |-> [s \in Symbols |-> NoRow]]
    /\ trades = <<>>
    /\ tradeSeq = 0
    /\ rowLock = [r \in Rows |-> 0]
    /\ faultsLeft = 0
    /\ cash0 = cash
    /\ portfolios0 = portfolios
    /\ atStop = [queued |-> {}, inflight |-> {}]
    /\ userSeq = Cardinality(Accounts)
    /\ cleanup = 0

BurstNext ==
    \/ \E c \in Arrivals : SubmitTrade(c, {BurstRequest})
    \/ \E c \in Arrivals : Enqueue(c)
    \/ \E w \in Workers : WorkerStep(w)

BurstFairness ==
    /\ \A c \in Arrivals : WF_vars(Enqueue(c))
    /\ \A w \in Workers : WF_vars(WorkerStep(w))

BurstSpec == BurstInit /\ [][BurstNext]_vars /\ BurstFairness

\* The registry on its own: goroutines that are not workers of the pool call
\* UnlockUser for a user whose lock they do not hold, once or again after
\* the call has returned.  The registry starts in any state LockUser and
\* UnlockUser can leave it in: an entry exists or not, and a mutex that exists
\* is free or is held by some other goroutine of the process.
MutexOf(entries, u) == Cardinality({v \in entries : v <= u})

\* The caller to whom UnlockUser has returned calls it again.
UnlockUserAgain(w) ==
    /\ wpc[w] = "send"
    /\ wpc' = [wpc EXCEPT ![w] = "ul_rlock"]
    /\ UNCHANGED <<poolVars, lockVars, cur, result, tx, callVars, sellVars,
                   storeVars, initVars, testVars>>

RegistryInit ==
    /\ workers = MaxWorkers
    /\ started = FALSE
    /\ stopCh = "open"
    /\ stopPc = "idle"
    /\ wg = 0
    /\ tradeQueue = <<>>
    /\ \E entries \in SUBSET UserIDs, held \in SUBSET UserIDs :
          /\ held \subseteq entries
          /\ userLocks = [u \in UserIDs |->
                            IF u \in entries THEN MutexOf(entries, u) ELSE 0]
          /\ mutexCount = Cardinality(entries)
          /\ mutexLocked = {MutexOf(entries, u) : u \in held}
    /\ mapMutex = [writer |-> 0, readers |-> {}]
    /\ wpc = [w \in Workers |-> "ul_rlock"]
    /\ cur = [w \in Workers |-> w]
    /\ userMutex = [w \in Workers |-> 0]
    /\ result = [w \in Workers |-> NoResult]
    /\ tx = [w \in Workers |-> NoTx]
    /\ cpc = [c \in Calls |-> IF c \in Workers THEN "waiting" ELSE "idle"]
    /\ creq \in {[c \in Calls |-> IF c = 1 THEN BuyRequest(u1, "AAPL", 1, 1000)
                                   ELSE IF c \in Workers
                                        THEN BuyRequest(u2, "AAPL", 1, 1000)
                                        ELSE NoRequest] :
                    u1 \in UserIDs, u2 \in UserIDs}
    /\ cres = [c \in Calls |-> NoResult]
    /\ nres = [c \in Calls |-> 0]
    /\ spc = [j \in Sells |-> "idle"]
    /\ sreq = [j \in Sells |-> NoRequest]
    /\ sresp = [j \in Sells |-> Response(0, "", 0, 0)]
    /\ stx = [j \in Sells |-> NoTx]
    /\ cash = [u \in Accounts |-> 200]
    /\ portfolios = [u \in Accounts |-> [s \in Symbols |-> NoRow]]
    /\ trades = <<>>
    /\ tradeSeq = 0
    /\ rowLock = [r \in Rows |-> 0]
    /\ faultsLeft = 0
    /\ cash0 = cash
    /\ portfolios0 = portfolios
    /\ atStop = [queued |-> {}, inflight |-> {}]
    /\ userSeq = Cardinality(Accounts)
    /\ cleanup = 0

RegistryNext ==
    \/ \E w \in Workers : UnlockUserRLock(w)
    \/ \E w \in Workers : UnlockUserFetch(w)
    \/ \E w \in Workers : UnlockUserMutex(w)
    \/ \E w \in Workers : UnlockUserAgain(w)

RegistrySpec == RegistryInit /\ [][RegistryNext]_vars

\* Buys of one account by executors that do not share the registry's lock:
\* the workers of the pool, under LockUser, and the handler BuyStock, under
\* none.  Two buys of 100 cents, or one of 200, exhaust the account.
DirectBuys ==
    {BuyRequest(1, "AAPL", 1, 1000), BuyRequest(1, "AAPL", 2, 1000),
     BuyRequest(1, "AAPL", 3, 335)}

DirectNext ==
    \/ Start
    \/ \E c \in 1..LedgerCalls : SubmitTrade(c, DirectBuys)
    \/ \E c \in 1..LedgerCalls : Enqueue(c)
    \/ \E w \in Workers : WorkerStep(w)
    \/ \E w \in Workers : WorkerPanic(w)
    \/ \E j \in Sells : BuyStockBegin(j, DirectBuys)
    \/ \E j \in Sells : BuyStock(j)

DirectSpec == Init /\ [][DirectNext]_vars

\* The trade history at its limit: account 1 has TradeLimit trade records,
\* account 2 has OtherTrades older ones, and further buys of both accounts
\* come through the pool and through BuyStock.  BuyStock's transaction may
\* have begun before the records of account 1 were inserted, or at the very
\* time the oldest of them was, and insert only now.  Every buy costs 0.50
\* and every account has 1.00, so the third buy of an account is refused.
HistoryBuys == {BuyRequest(u, "AAPL", 1, 500) : u \in Accounts}

HistoryRow(i) ==
    IF i <= OtherTrades
    THEN TradeRow(i, 2, "AAPL", "BUY", 1, 500, Amount(500, 0), i)
    ELSE TradeRow(i, 1, "AAPL", "BUY", 1, 500, Amount(500, 0), i - OtherTrades + 1)

HistoryInit ==
    /\ workers = MaxWorkers
    /\ started = FALSE
    /\ stopCh = "open"
    /\ stopPc = "idle"
    /\ wg = 0
    /\ tradeQueue = <<>>
    /\ userLocks = [u \in UserIDs |-> 0]
    /\ mutexCount = 0
    /\ mutexLocked = {}
    /\ mapMutex = [writer |-> 0, readers |-> {}]
    /\ wpc = [w \in Workers |-> "none"]
    /\ cur = [w \in Workers |-> 0]
    /\ userMutex = [w \in Workers |-> 0]
    /\ result = [w \in Workers |-> NoResult]
    /\ tx = [w \in Workers |-> NoTx]
    /\ cpc = [c \in Calls |-> "idle"]
    /\ creq = [c \in Calls |-> NoRequest]
    /\ cres = [c \in Calls |-> NoResult]
    /\ nres = [c \in Calls |-> 0]
    /\ \E began \in {0, 1, 2} :
          /\ spc = [j \in Sells |-> IF j = 1 /\ began > 0 THEN "buy_balance" ELSE "idle"]
          /\ sreq = [j \in Sells |-> IF j = 1 /\ began > 0
                                     THEN BuyRequest(1, "AAPL", 1, 500) ELSE NoRequest]
          /\ stx = [j \in Sells |-> IF j = 1 /\ began > 0
                                    THEN [NoTx EXCEPT
                                             !.open = TRUE, !.began = began,
                                             !.total = TotalCost(BuyRequest(1, "AAPL", 1, 500))]
                                    ELSE NoTx]
    /\ sresp = [j \in Sells |-> Response(0, "", 0, 0)]
    /\ cash = [u \in Accounts |-> 100]
    /\ portfolios = [u \in Accounts |-> [s \in Symbols |->
                        Position(IF u = 1 THEN TradeLimit ELSE OtherTrades, 50)]]
    /\ trades = [i \in 1 .. OtherTrades + TradeLimit |-> HistoryRow(i)]
    /\ tradeSeq = OtherTrades + TradeLimit
    /\ rowLock = [r \in Rows |-> 0]
    /\ faultsLeft = 0
    /\ cash0 = cash
    /\ portfolios0 = portfolios
    /\ atStop = [queued |-> {}, inflight |-> {}]
    /\ userSeq = Cardinality(Accounts)
    /\ cleanup = 0

HistoryNext ==
    \/ Start
    \/ \E c \in 1..LedgerCalls : SubmitTrade(c, HistoryBuys)
    \/ \E c \in 1..LedgerCalls : Enqueue(c)
    \/ \E w \in Workers : WorkerStep(w)
    \/ \E j \in Sells : BuyStockBegin(j, HistoryBuys)
    \/ \E j \in Sells : BuyStock(j)

HistorySpec == HistoryInit /\ [][HistoryNext]_vars

\* Competing buys: every caller submits a buy of account 1, so that runs
\* occur in which all MaxCalls orders cost the same: one share at 1.00 (a
\* balance of 2.00 covers two), at 2.00 (it covers one) or at 0.666 (it covers
\* three), or three shares at 0.10 (a balance of 0.30 covers one).  The store
\* does not fail and Stop is not called.
FundsBuys ==
    {BuyRequest(1, "AAPL", 1, p) : p \in {1000, 2000, 666}}
        \cup {BuyRequest(1, "AAPL", 3, 100)}

FundsInit ==
    /\ NewTradeProcessor
    /\ \E balance \in {200, 30} : StoreOf(balance)
    /\ faultsLeft = 0
    /\ portfolios[1]["AAPL"] = NoRow

FundsNext ==
    \/ Start
    \/ \E c \in Calls : SubmitTrade(c, FundsBuys)
    \/ \E c \in Calls : Enqueue(c)
    \/ \E w \in Workers : WorkerStep(w)

FundsSpec == FundsInit /\ [][FundsNext]_vars

\* A test: the store as init.sql leaves it (the demo user with 10000.00, the
\* sequence of users.id not yet drawn from), users created by CreateTestUser,
\* a pool started, used and stopped, and CleanupTestDB, in any order.  The
\* orders are a buy of one share for the user a test creates, and a buy of
\* no share for the demo user: SubmitTrade takes it as it is, and the store
\* refuses its row of trades.
TestBuys == {BuyRequest(2, "AAPL", 1, 1000), BuyRequest(1, "AAPL", 0, 1000)}

TestInit ==
    /\ NewTradeProcessor
    /\ cash = [u \in {1} |-> 1000000]
    /\ userSeq = 0
    /\ portfolios = [u \in Accounts |-> [s \in Symbols |-> NoRow]]
    /\ trades = <<>>
    /\ tradeSeq = 0
    /\ rowLock = [r \in Rows |-> 0]
    /\ faultsLeft = 0
    /\ cash0 = cash
    /\ portfolios0 = portfolios

TestNext ==
    \/ CreateTestUser(200)
    \/ CleanupTestDB
    \/ Start
    \/ StopClose
    \/ StopWait
    \/ \E c \in 1..LedgerCalls : SubmitTrade(c, TestBuys)
    \/ \E c \in 1..LedgerCalls : Enqueue(c)
    \/ \E w \in Workers : WorkerStop(w)
    \/ \E w \in Workers : WorkerStep(w)

TestSpec == TestInit /\ [][TestNext]_vars

\* The ledger under buys through the pool and sells through SellStock, with
\* a store whose statements may fail.  Account 1 starts with 2.00: a buy of
\* 1 at 1.00 and one of 3 at 0.335 are covered, a buy of 2 at 1.005 is not,
\* unless a sell has been credited before.  A sell of 3 is covered once a buy
\* has added to the 2 shares the account may hold.  The float64 product
\* 3 * 0.335 lies above 1.005, and 3 * 0.075 below 0.225.
LedgerBuys ==
    {BuyRequest(1, "AAPL", 1, 1000), BuyRequest(1, "AAPL", 2, 1005),
     BuyRequest(1, "AAPL", 3, 335), BuyRequest(NoUser, "AAPL", 1, 1000)}
LedgerSells == {BuyRequest(1, "AAPL", 2, 1005), BuyRequest(1, "AAPL", 3, 75)}

LedgerNext ==
    \/ Start
    \/ \E c \in 1..LedgerCalls : SubmitTrade(c, LedgerBuys)
    \/ \E c \in 1..LedgerCalls : Enqueue(c)
    \/ \E w \in Workers : WorkerStep(w)
    \/ \E w \in Workers : WorkerPanic(w)
    \/ \E j \in Sells : SellStockBegin(j, LedgerSells)
    \/ \E j \in Sells : SellStock(j)

Spec == Init /\ [][LedgerNext]_vars

(***************************************************************************)
(* Properties.                                                             *)
(***************************************************************************)
Running == {w \in Workers : w <= workers}

\* Worker w is between the return of LockUser and the Unlock of UnlockUser.
InCriticalSection(w) ==
    wpc[w] \in {"tx_begin", "tx_balance", "tx_debit", "tx_portfolio", "tx_trade",
                 "tx_commit", "tx_rollback", "ul_rlock", "ul_fetch", "ul_unlock"}

\* Worker w is in userMutex.Lock(), and the mutex is held.
WaitsForUser(w) == wpc[w] = "lu_user_lock" /\ ~MutexFree(userMutex[w])

\* C1: no two workers are at the same time inside processTrade's critical
\* section (between LockUser and UnlockUser) for the same user id.
C1_MutualExclusion ==
    \A w1 \in Workers, w2 \in Workers :
        (w1 # w2 /\ InCriticalSection(w1) /\ InCriticalSection(w2))
            => Req(w1).UserID # Req(w2).UserID

\* Two workers hold orders of the same user: one is inside, the other waits.
C1_Witness ==
    \E w1 \in Workers, w2 \in Workers :
        /\ w1 # w2
        /\ InCriticalSection(w1)
        /\ WaitsForUser(w2)
        /\ Req(w1).UserID = Req(w2).UserID

\* C4: when Stop has returned, all N workers have exited, and every order a
\* worker had dequeued has been executed and its result delivered, also when
\* an order has made processTrade panic.
C4_StopWaitsForInFlight ==
    stopPc = "returned" =>
        /\ \A w \in Running : wpc[w] = "exited" /\ cur[w] = 0
        /\ InFlight = {}
        /\ \A c \in atStop.inflight : cpc[c] = "returned" /\ nres[c] = 1

\* C5: every order that was in the queue when Stop was called is executed and
\* answered.  Once Stop has returned no worker is left to do so, hence: when
\* Stop has returned, the orders that were queued have been answered.
C5_QueuedOrdersAnswered ==
    stopPc = "returned" => \A c \in atStop.queued : cpc[c] = "returned"

\* C6: with N >= 2 workers, a queued order of user B does not depend on the
\* execution of another user's order ending: some worker is not held up by
\* another user's lock, that is, some worker neither holds nor waits for the
\* lock of a user other than B.
C6_UnrelatedUserNotBlocked ==
    (workers >= 2 /\ stopCh = "open") =>
        \A c \in Queued :
            \E w \in Running :
                ~(/\ InCriticalSection(w) \/ WaitsForUser(w)
                  /\ Req(w).UserID # creq[c].UserID)

\* C3: while the pool is started, Stop has not been called and the process
\* has not died of a panic, every SubmitTrade call that is made returns, and
\* with exactly one result: no order is held by two workers, none is answered
\* twice, a call that returned was answered once.
C3_EveryCallReturnsOnce ==
    /\ [](\A c \in Calls :
            /\ nres[c] <= 1
            /\ cpc[c] = "returned" <=> nres[c] = 1
            /\ Cardinality({w \in Workers : cur[w] = c}) <= 1
            /\ c \in Queued => \A w \in Workers : cur[w] # c)
    /\ \A c \in 1 .. LedgerCalls :
            (started /\ cpc[c] \in {"sending", "waiting"})
                ~> (cpc[c] = "returned" \/ stopCh = "closed" \/ ~Alive)

\* Two calls for the same user were made and both have returned with a
\* successful result while Stop had not been called.
C3_Witness ==
    /\ stopCh = "open"
    /\ \A c \in 1 .. LedgerCalls : cpc[c] = "returned" /\ cres[c].Success
    /\ creq[1].UserID = creq[2].UserID

(***************************************************************************)
(* The ledger.                                                             *)
(***************************************************************************)
\* The calls that returned a successful BUY of user u, and the SellStock
\* requests of user u answered with 200.
Bought(u) == {c \in Calls : cpc[c] = "returned" /\ cres[c].Success /\ creq[c].UserID = u}
Sold(u) == {j \in Sells : spc[j] = "done" /\ sresp[j].status = 200 /\ sreq[j].UserID = u}

\* qty*price as the number it is, in mills.
ExactCost(req) == req.Price * req.Quantity

\* The sums of qty*price (in mills) and of qty over the requests reqs[i], i in S.
RECURSIVE SumCost(_, _)
SumCost(reqs, S) ==
    IF S = {} THEN 0
    ELSE LET i == CHOOSE x \in S : TRUE
         IN  ExactCost(reqs[i]) + SumCost(reqs, S \ {i})

RECURSIVE SumQuantity(_, _)
SumQuantity(reqs, S) ==
    IF S = {} THEN 0
    ELSE LET i == CHOOSE x \in S : TRUE
         IN  reqs[i].Quantity + SumQuantity(reqs, S \ {i})

\* C2: once all orders of a user have returned, the balance is the initial
\* balance minus the sum of qty*price of the successful buys plus that of the
\* successful sells, and the position's quantity is the initial quantity plus
\* bought minus sold.
C2_FinalLedgerExact ==
    (/\ \A c \in Calls : cpc[c] \in {"idle", "returned"}
     /\ \A j \in Sells : spc[j] \in {"idle", "done"}) =>
        \A u \in Accounts :
            /\ cash[u] * 10 = cash0[u] * 10 - SumCost(creq, Bought(u))
                                             + SumCost(sreq, Sold(u))
            /\ \A s \in Symbols :
                  portfolios[u][s].quantity =
                      portfolios0[u][s].quantity + SumQuantity(creq, Bought(u))
                                                 - SumQuantity(sreq, Sold(u))

\* C7: a step that yields a failure result of a BUY, or a failure response of
\* a SELL, leaves balances, positions and trade records unchanged; the
\* committed ledger changes only in the step that commits an order which
\* succeeds, so no write of a failed order is ever visible.
C7_FailureLeavesLedger ==
    [][/\ \A w \in Workers :
              (result'[w] # result[w] /\ result'[w] # NoResult /\ ~result'[w].Success)
                  => ledger' = ledger
       /\ \A j \in Sells :
              (sresp'[j] # sresp[j] /\ sresp'[j].status # 200) => ledger' = ledger
       /\ ledger' # ledger =>
              \/ \E w \in Workers : wpc[w] = "tx_commit" /\ result'[w].Success
              \/ \E j \in Sells : spc[j] = "sell_commit" /\ sresp'[j].status = 200
      ]_vars

\* The INSERT INTO trades of a BUY was refused after its id was drawn, the
\* store has aborted the transaction, and a SELL of the same user has taken
\* the row of the account before the deferred Rollback of the BUY ran:
\* balances, positions and trade records are as they were.
C7_Witness ==
    \E w \in Workers, j \in Sells :
        /\ wpc[w] = "tx_rollback"
        /\ result[w].Error = "Failed to record trade"
        /\ sreq[j].UserID = Req(w).UserID
        /\ rowLock[UserRow(Req(w).UserID)] = SellTx(j)
        /\ cash = cash0
        /\ portfolios = portfolios0
        /\ trades = <<>>
        /\ tradeSeq = 1

\* C8: the committed cash balance of every account is at least zero.
C8_BalanceNonNegative == \A u \in Accounts : cash[u] >= 0

\* Successful buys have spent the whole balance of account 1.
C8_Witness ==
    /\ cash0[1] > 0
    /\ cash[1] = 0
    /\ Bought(1) # {}

RollbackOnly(w) ==
    (wpc[w] = "tx_rollback" /\ wpc'[w] \notin {"tx_rollback", "panicked"}) =>
        /\ wpc'[w] = "ul_rlock"
        /\ tx'[w] = NoTx
        /\ result'[w] = result[w]
        /\ ledger' = ledger

\* C10: when processTrade reads a balance that the cost qty*price exceeds, it
\* yields a failure, which is "Insufficient funds" when no statement of the
\* store failed, writes nothing in its transaction, and goes to the deferred
\* Rollback, which ends the transaction; balances, positions and trade
\* records stay unchanged.
C10_InsufficientFundsRefused ==
    [][\A w \in Workers :
          /\ (/\ wpc[w] = "tx_balance"
               /\ wpc'[w] \notin {"tx_balance", "panicked"}
               /\ Req(w).UserID \in Accounts
               /\ ExactCost(Req(w)) > cash[Req(w).UserID] * 10) =>
                  /\ wpc'[w] = "tx_rollback"
                  /\ ~result'[w].Success
                  /\ faultsLeft' = faultsLeft => result'[w].Error = "Insufficient funds"
                  /\ tx'[w] = tx[w]
                  /\ ledger' = ledger
          /\ RollbackOnly(w)
      ]_vars

\* A BUY of 2 at 1.005 against a balance below 2.01 has returned
\* "Insufficient funds".
C10_Witness ==
    \E c \in Calls :
        /\ cpc[c] = "returned"
        /\ cres[c].Error = "Insufficient funds"
        /\ creq[c].UserID \in Accounts
        /\ ExactCost(creq[c]) > cash[creq[c].UserID] * 10
        /\ trades = <<>>

\* C11: a BUY for a user id that has no account yields the failure "User not
\* found" (when no statement of the store failed), changes no balance,
\* position or trade record and adds no account; the worker that ran it then
\* releases the lock and returns to its loop: no worker ever stops with a
\* fatal error.
C11_UnknownUserRefused ==
    /\ [](\A w \in Workers : wpc[w] # "fatal")
    /\ [](DOMAIN cash = Accounts /\ DOMAIN portfolios = Accounts)
    /\ [][\A w \in Workers :
            /\ (/\ wpc[w] = "tx_balance"
                 /\ wpc'[w] \notin {"tx_balance", "panicked"}
                 /\ Req(w).UserID \notin Accounts) =>
                    /\ wpc'[w] = "tx_rollback"
                    /\ ~result'[w].Success
                    /\ faultsLeft' = faultsLeft => result'[w].Error = "User not found"
                    /\ rowLock' = rowLock
                    /\ ledger' = ledger
            /\ RollbackOnly(w)
        ]_vars

\* The only worker of the pool answered a BUY of an unknown user with "User
\* not found" and then executed the next order with success.
C11_Witness ==
    /\ workers = 1
    /\ cpc[1] = "returned" /\ creq[1].UserID = NoUser /\ cres[1].Error = "User not found"
    /\ cpc[2] = "returned" /\ cres[2].Success
    /\ Len(trades) = 1

\* The quantity held before a BUY (0 without a row), and the exact value, in
\* mills times shares, of old_avg*old_qty + price*qty.
HeldQuantity(row) == IF row.exists THEN row.quantity ELSE 0
CostBasis(row, req) ==
    row.avg_purchase_price * 10 * HeldQuantity(row) + req.Price * req.Quantity

\* C12 (as stated): the step that commits a BUY sets the quantity to
\* old_qty + qty and the average cost to exactly
\* (old_avg*old_qty + price*qty) / (old_qty + qty).
C12_AverageExact ==
    [][\A w \in Workers :
          (wpc[w] = "tx_commit" /\ result'[w].Success) =>
              LET req == Req(w)
                  old == portfolios[req.UserID][req.StockSymbol]
                  new == portfolios'[req.UserID][req.StockSymbol]
              IN  /\ new.quantity = HeldQuantity(old) + req.Quantity
                  /\ new.avg_purchase_price * 10 * new.quantity = CostBasis(old, req)
      ]_vars

\* C12 (amended): the step that commits a BUY sets the quantity to
\* old_qty + qty and the average cost to
\* (old_avg*old_qty + price*qty) / (old_qty + qty) rounded to the nearest
\* cent: the stored average is within half a cent of that quotient, also when
\* the buys of a user are submitted concurrently.
C12_AverageToTheCent ==
    [][\A w \in Workers :
          (wpc[w] = "tx_commit" /\ result'[w].Success) =>
              LET req == Req(w)
                  old == portfolios[req.UserID][req.StockSymbol]
                  new == portfolios'[req.UserID][req.StockSymbol]
              IN  /\ new.exists
                  /\ new.quantity = HeldQuantity(old) + req.Quantity
                  /\ 2 * (new.avg_purchase_price * 10 * new.quantity
                              - CostBasis(old, req)) <= 10 * new.quantity
                  /\ 2 * (CostBasis(old, req)
                              - new.avg_purchase_price * 10 * new.quantity)
                        <= 10 * new.quantity
      ]_vars

\* Two buys of 1 at 1.00, submitted together, were added to a position of 2
\* at 1.50: quantity 4, and the average 1.25 reached through 1.33.
C12_Witness ==
    /\ portfolios0[1]["AAPL"] = Held
    /\ \A c \in 1 .. LedgerCalls : cpc[c] = "returned" /\ cres[c].Success
    /\ \A j \in Sells : spc[j] = "idle"
    /\ portfolios[1]["AAPL"] = Position(4, 125)

\* C13: in every committed state a position that exists as a row has a
\* quantity above 0 (so no quantity is negative and no row holds 0), and the
\* step that commits a SELL of exactly the held quantity removes the row.
C13_NoEmptyPosition ==
    /\ [](\A u \in Accounts, s \in Symbols :
              /\ portfolios[u][s].quantity >= 0
              /\ portfolios[u][s].exists => portfolios[u][s].quantity > 0)
    /\ [][\A j \in Sells :
              (/\ spc[j] = "sell_commit"
               /\ sresp'[j].status = 200
               /\ portfolios[sreq[j].UserID][sreq[j].StockSymbol].quantity
                     = sreq[j].Quantity) =>
                  ~portfolios'[sreq[j].UserID][sreq[j].StockSymbol].exists
        ]_vars

\* The account held 2 shares, a SELL of 2 was answered with 200, no BUY
\* succeeded: the row of the position is gone.
C13_Witness ==
    /\ portfolios0[1]["AAPL"] = Held
    /\ \E j \in Sells : /\ spc[j] = "done" /\ sresp[j].status = 200
                        /\ sreq[j].Quantity = Held.quantity
    /\ Bought(1) = {}
    /\ portfolios[1]["AAPL"] = NoRow

\* The deferred Rollback of SellStock ends its transaction, which then holds
\* no row, and changes neither the response nor the ledger.
SellRollbackOnly(j) ==
    (spc[j] = "sell_rollback" /\ spc'[j] # "sell_rollback") =>
        /\ spc'[j] = "done"
        /\ sresp'[j] = sresp[j]
        /\ stx'[j] = NoTx
        /\ \A r \in Rows : rowLock'[r] # SellTx(j)
        /\ ledger' = ledger

\* C14: when SellStock's SELECT reads a held quantity below the quantity to
\* sell, it answers with a failure, which is the insufficient-shares error
\* carrying the owned and the requested quantity when no statement of the
\* store failed; it has written nothing, its deferred Rollback ends the
\* transaction, and no position, balance or trade record changes.
C14_InsufficientSharesRefused ==
    [][/\ \A j \in Sells :
          (/\ spc[j] = "sell_position"
           /\ spc'[j] # "sell_position"
           /\ sreq[j].UserID \in Accounts
           /\ portfolios[sreq[j].UserID][sreq[j].StockSymbol].exists
           /\ sreq[j].Quantity
                 > portfolios[sreq[j].UserID][sreq[j].StockSymbol].quantity) =>
              /\ spc'[j] = "sell_rollback"
              /\ sresp'[j].status # 200
              /\ faultsLeft' = faultsLeft =>
                    sresp'[j] = Response(400, "Insufficient shares",
                                  portfolios[sreq[j].UserID][sreq[j].StockSymbol].quantity,
                                  sreq[j].Quantity)
              /\ stx'[j] = stx[j]
              /\ ledger' = ledger
       /\ \A j \in Sells : SellRollbackOnly(j)
      ]_vars

\* A SELL of 3 against a holding of 2 was answered "Insufficient shares. You
\* own 2, trying to sell 3"; the holding is as before.
C14_Witness ==
    \E j \in Sells :
        /\ spc[j] = "done"
        /\ sresp[j] = Response(400, "Insufficient shares", 2, 3)
        /\ sreq[j].Quantity = 3
        /\ portfolios[sreq[j].UserID][sreq[j].StockSymbol] = Held
        /\ trades = <<>>

\* C15: the step that commits a SELL of fewer shares than are held lowers the
\* position's quantity by qty, leaves its average cost unchanged, raises the
\* balance by exactly qty*price and appends one SELL trade record.
C15_SellExact ==
    [][\A j \in Sells :
          (/\ spc[j] = "sell_commit"
           /\ sresp'[j].status = 200
           /\ sreq[j].Quantity
                 < portfolios[sreq[j].UserID][sreq[j].StockSymbol].quantity) =>
              LET req == sreq[j]
                  u == req.UserID
                  s == req.StockSymbol
                  t == trades'[Len(trades')]
              IN  /\ portfolios'[u][s].exists
                  /\ portfolios'[u][s].quantity = portfolios[u][s].quantity - req.Quantity
                  /\ portfolios'[u][s].avg_purchase_price
                        = portfolios[u][s].avg_purchase_price
                  /\ cash'[u] * 10 = cash[u] * 10 + ExactCost(req)
                  /\ Len(trades') = Len(trades) + 1
                  /\ t.user_id = u /\ t.stock_symbol = s /\ t.trade_type = "SELL"
                  /\ t.quantity = req.Quantity
      ]_vars

\* The trade records of user b, in order.
TradesOf(ts, b) == SelectSeq(ts, LAMBDA t : t.user_id = b)

\* C16: the step that ends the transaction of an order of user A leaves the
\* balance, the positions and the trade records of every other user B as they
\* were, whatever the other workers are doing; and no other step changes the
\* ledger.
C16_OtherUsersUntouched ==
    [][/\ \A w \in Workers :
              wpc[w] = "tx_commit" /\ wpc'[w] # "tx_commit" =>
                  \A b \in Accounts \ {Req(w).UserID} :
                      /\ cash'[b] = cash[b]
                      /\ portfolios'[b] = portfolios[b]
                      /\ TradesOf(trades', b) = TradesOf(trades, b)
       /\ (\A w \in Workers : ~(wpc[w] = "tx_commit" /\ wpc'[w] # "tx_commit"))
              => ledger' = ledger
      ]_vars

\* The BUY of user 1 is committed while another worker is inside the
\* transaction of a BUY of user 2, whose account is still as it started.
C16_Witness ==
    \E w \in Workers :
        /\ wpc[w] = "tx_portfolio"
        /\ Req(w).UserID = 2
        /\ tx[w].open
        /\ cash[2] = cash0[2]
        /\ cash[1] < cash0[1]
        /\ TradesOf(trades, 1) # <<>>
        /\ TradesOf(trades, 2) = <<>>

\* C17: the result a SubmitTrade call has returned is the result of its own
\* order: a success carries the total of the caller's request and the id of a
\* trade record of the caller's user, quantity and price, and no two calls got
\* the same trade id; "User not found" goes to a request whose user has no
\* account, "Insufficient funds" to a request of an account.
C17_OwnResult ==
    \A c \in Calls :
        cpc[c] = "returned" =>
            /\ cres[c].Success =>
                  /\ cres[c].TotalAmount = TotalCost(creq[c])
                  /\ \E i \in 1 .. Len(trades) :
                        /\ trades[i].id = cres[c].TradeID
                        /\ trades[i].user_id = creq[c].UserID
                        /\ trades[i].stock_symbol = creq[c].StockSymbol
                        /\ trades[i].trade_type = "BUY"
                        /\ trades[i].quantity = creq[c].Quantity
                        /\ trades[i].price = RoundCents(creq[c].Price)
                  /\ \A d \in Calls \ {c} :
                        (cpc[d] = "returned" /\ cres[d].Success)
                            => cres[d].TradeID # cres[c].TradeID
            /\ creq[c].UserID \notin Accounts => ~cres[c].Success
            /\ cres[c].Error = "User not found" => creq[c].UserID \notin Accounts
            /\ cres[c].Error = "Insufficient funds" => creq[c].UserID \in Accounts

\* A pool of two workers has answered two callers: the first, whose order
\* names an unknown user, has "User not found"; the second has the success
\* of its own BUY of 3 at 0.335, with the id of the only trade record.
C17_Witness ==
    /\ workers = 2
    /\ cpc[1] = "returned" /\ cpc[2] = "returned"
    /\ creq[1].UserID = NoUser /\ cres[1].Error = "User not found"
    /\ creq[2].UserID = 1 /\ cres[2].Success /\ cres[2].TradeID = 1
    /\ creq[2].Price = 335 /\ creq[2].Quantity = 3

\* C18: the queue never holds more than QueueCap requests; while it is full a
\* sender stays blocked: it neither enqueues nor returns; a request that was
\* sent stays in the queue until a worker takes it, and the only way a call
\* returns is with the result a worker sent it (no queue-full result); and a
\* blocked sender's request is enqueued in the end.
C18_QueueBlocksWhenFull ==
    /\ [](Len(tradeQueue) <= QueueCap)
    /\ [](\A c \in DOMAIN cpc :
              /\ cpc[c] = "waiting" <=> (c \in Queued \/ \E w \in Workers : cur[w] = c)
              /\ cpc[c] = "returned" => nres[c] = 1)
    /\ [][\A c \in DOMAIN cpc :
              /\ (Len(tradeQueue) = QueueCap /\ cpc[c] = "sending")
                    => (cpc'[c] = "sending" /\ Len(tradeQueue') <= QueueCap)
              /\ (cpc[c] # "returned" /\ cpc'[c] = "returned")
                    => \E w \in Workers : wpc[w] = "send" /\ cur[w] = c /\ cres'[c] = result[w]
        ]_vars
    /\ \A c \in Arrivals : (cpc[c] = "sending") ~> (cpc[c] = "waiting")

\* The queue holds QueueCap requests and MaxBlocked callers are blocked in
\* their send.
C18_Witness ==
    /\ Len(tradeQueue) = QueueCap
    /\ Cardinality({c \in DOMAIN cpc : cpc[c] = "sending"}) = MaxBlocked

\* C19: while the transaction of a SELL is open, the per-user lock of the
\* order's user is held for it, and no pool worker is inside the transaction
\* of a BUY of the same user.
C19_SellUnderUserLock ==
    \A j \in Sells :
        stx[j].open =>
            /\ userLocks[sreq[j].UserID] # 0
            /\ userLocks[sreq[j].UserID] \in mutexLocked
            /\ \A w \in Workers :
                  (InCriticalSection(w) /\ tx[w].open)
                      => Req(w).UserID # sreq[j].UserID

\* The sum of total_amount (in cents) over the trade records of user u with
\* trade_type type, from index i on.
RECURSIVE SumTotals(_, _, _, _)
SumTotals(ts, u, type, i) ==
    IF i > Len(ts) THEN 0
    ELSE (IF ts[i].user_id = u /\ ts[i].trade_type = type THEN ts[i].total_amount ELSE 0)
             + SumTotals(ts, u, type, i + 1)

\* C20: in every committed state every trade record has
\* total_amount = quantity * price, and every balance is the initial balance
\* minus the totals of the user's BUY records plus the totals of the user's
\* SELL records.
C20_TradesMatchBalances ==
    /\ \A i \in 1 .. Len(trades) :
          trades[i].total_amount = trades[i].quantity * trades[i].price
    /\ \A u \in Accounts :
          cash[u] = cash0[u] - SumTotals(trades, u, "BUY", 1)
                             + SumTotals(trades, u, "SELL", 1)

\* C21: while the process runs, every per-user lock that is held is held by a
\* worker that is inside processTrade for that user; a worker that is out of
\* processTrade (it sends a result, waits in its select, or has exited) holds
\* none; and the deferred UnlockUser releases the lock on every path: with a
\* result of success, with any failure, and while a panic unwinds.
C21_LockReleasedOnEveryPath ==
    /\ [](Alive =>
            \A m \in mutexLocked :
                \E w \in Workers :
                    /\ InCriticalSection(w)
                    /\ userLocks[Req(w).UserID] = m)
    /\ [][\A w \in Workers :
            (wpc[w] = "ul_unlock" /\ userMutex'[w] # userMutex[w]) =>
                /\ userLocks[Req(w).UserID] \notin mutexLocked'
                /\ wpc'[w] \in {"send", "wg_done"}
        ]_vars

\* A panic has unwound processTrade and worker and ended the process; the
\* lock that was created for the order's user is not held.
C21_Witness ==
    /\ \E w \in Workers : wpc[w] = "panicked" /\ result[w] = Panicking
    /\ mutexCount > 0
    /\ mutexLocked = {}

\* The steps of a worker for one order, in the order of the code: dequeue,
\* LockUser, the transaction, the deferred UnlockUser, the send of the result.
WorkerOrder ==
    {<<"select", "lu_map_lock">>, <<"lu_map_lock", "lu_fetch">>,
     <<"lu_fetch", "lu_user_lock">>, <<"lu_user_lock", "tx_begin">>,
     <<"tx_begin", "tx_balance">>, <<"tx_begin", "ul_rlock">>,
     <<"tx_balance", "tx_debit">>, <<"tx_balance", "tx_rollback">>,
     <<"tx_debit", "tx_portfolio">>, <<"tx_debit", "tx_rollback">>,
     <<"tx_portfolio", "tx_trade">>, <<"tx_portfolio", "tx_rollback">>,
     <<"tx_trade", "tx_commit">>, <<"tx_trade", "tx_rollback">>,
     <<"tx_commit", "ul_rlock">>, <<"tx_rollback", "ul_rlock">>,
     <<"ul_rlock", "ul_fetch">>,
     <<"ul_fetch", "ul_unlock">>, <<"ul_unlock", "send">>, <<"send", "select">>}

\* C22: a worker takes the steps of an order in the order lock, transaction,
\* end of the transaction, unlock, send.  The transaction of a worker is open,
\* and holds row locks, only while the worker is inside the critical section
\* with the user's lock held; a worker that waits to deliver a result has no
\* open transaction and does not hold the user's lock.
C22_LockThenTxThenUnlockThenReply ==
    /\ [](Alive =>
            \A w \in Workers :
                /\ tx[w].open =>
                      /\ wpc[w] \in {"tx_balance", "tx_debit", "tx_portfolio", "tx_trade",
                                   "tx_commit", "tx_rollback"}
                      /\ userLocks[Req(w).UserID] \in mutexLocked
                /\ (\E r \in Rows : rowLock[r] = WorkerTx(w)) =>
                      /\ tx[w].open
                      /\ wpc[w] \in {"tx_debit", "tx_portfolio", "tx_trade", "tx_commit",
                                   "tx_rollback"}
                /\ wpc[w] = "send" =>
                      /\ ~tx[w].open
                      /\ userMutex[w] = 0
                      /\ userLocks[Req(w).UserID] \in mutexLocked =>
                            \E x \in Workers \ {w} :
                                /\ InCriticalSection(x)
                                /\ Req(x).UserID = Req(w).UserID)
    /\ [][\A w \in Workers :
            (wpc'[w] # wpc[w] /\ wpc[w] \notin {"none", "select"}
                /\ wpc'[w] \notin {"fatal", "wg_done", "exit", "panicked"})
                => <<wpc[w], wpc'[w]>> \in WorkerOrder
        ]_vars

\* A worker waits to deliver the success of a committed BUY: the trade record
\* is in the store, no row is locked, and the user's lock is free.
C22_Witness ==
    \E w \in Workers :
        /\ wpc[w] = "send"
        /\ result[w].Success
        /\ Len(trades) = 1
        /\ \A r \in Rows : rowLock[r] = 0
        /\ mutexLocked = {}

\* C23: a worker exits only from its select, holding no order; an order that
\* was dequeued is held by a worker that goes on executing it until its result
\* is delivered, whether or not Stop has been called: no call waits for an
\* order that no worker holds and that is not in the queue.
C23_ExitOnlyWhenIdle ==
    /\ [](\A w \in Workers : wpc[w] \in {"exited", "select", "none"} => cur[w] = 0)
    /\ [](\A c \in Calls :
              (cpc[c] = "waiting" /\ c \notin Queued) =>
                  \E w \in Workers :
                      cur[w] = c /\ wpc[w] \notin {"exited", "select", "none"})
    /\ [][\A w \in Workers :
              (wpc'[w] = "exited" /\ wpc[w] # "exited") =>
                  /\ wpc[w] = "select"
                  /\ stopCh = "closed"
                  /\ cur[w] = 0
        ]_vars

\* Stop was called while a worker held an order it had dequeued; the order
\* was executed with success, its result delivered, and the workers exited.
C23_Witness ==
    \E c \in atStop.inflight :
        /\ cpc[c] = "returned"
        /\ cres[c].Success
        /\ \A w \in Running : wpc[w] = "exited"
        /\ Len(trades) >= 1
        /\ stopPc = "waiting"

\* C24: a LockUser(u) call whose user's lock is free is not made to wait by
\* locks of other users: at userMutex.Lock() it can proceed at once, whatever
\* other mutexes are held; the map's mutex, the only other thing it waits for,
\* is held only by a goroutine that is at its fetch and can itself proceed
\* (never by one that holds or waits for a per-user lock's turn).
C24_OtherUsersLocksDoNotBlock ==
    \A w \in Workers :
        /\ (wpc[w] = "lu_user_lock" /\ userMutex[w] \notin mutexLocked)
              => ENABLED LockUserMutex(w)
        /\ wpc[w] = "lu_fetch" => (mapMutex.writer = w /\ ENABLED LockUserFetch(w))
        /\ wpc[w] = "lu_map_lock" =>
              \/ ENABLED LockUserMapLock(w)
              \/ \E x \in Workers \ {w} :
                    \/ wpc[x] = "lu_fetch" /\ ENABLED LockUserFetch(x)
                    \/ wpc[x] = "ul_fetch" /\ ENABLED UnlockUserFetch(x)

\* A worker is at userMutex.Lock() for user 2, whose lock is free, while the
\* other worker holds the lock of user 1 inside its transaction.
C24_Witness ==
    \E w \in Workers, x \in Workers :
        /\ wpc[w] = "lu_user_lock" /\ Req(w).UserID = 2
        /\ userMutex[w] \notin mutexLocked
        /\ wpc[x] = "tx_portfolio" /\ Req(x).UserID = 1
        /\ userLocks[1] \in mutexLocked

\* The goroutines that hold the map's mutex, for writing or for reading.
HoldsMapMutex(w) == mapMutex.writer = w \/ w \in mapMutex.readers

\* C25 (as stated): no worker holds the map's mutex while it holds a
\* per-user lock, in LockUser and in UnlockUser.
C25_MapMutexNeverWithUserLock ==
    \A w \in Workers : HoldsMapMutex(w) => ~InCriticalSection(w)

\* C25 (amended): the map's mutex is held only for the fetch-or-insert of
\* LockUser (exclusively) and for the fetch of UnlockUser (shared), and never
\* by a worker that is acquiring a per-user lock; in LockUser its holder holds
\* no per-user lock, while in UnlockUser the holder still holds the lock of
\* the user it is about to release.
C25_MapMutexOnlyForFetch ==
    \A w \in Workers :
        /\ mapMutex.writer = w <=> wpc[w] = "lu_fetch"
        /\ w \in mapMutex.readers <=> wpc[w] = "ul_fetch"
        /\ mapMutex.writer = w => (mapMutex.readers = {} /\ ~InCriticalSection(w))
        /\ wpc[w] = "lu_user_lock" => ~HoldsMapMutex(w)
        /\ w \in mapMutex.readers =>
              (InCriticalSection(w) /\ userLocks[Req(w).UserID] \in mutexLocked)

\* One worker reads the map inside UnlockUser, still holding its user's lock,
\* while the other waits in LockUser for the map's mutex.
C25_Witness ==
    \E w \in Workers, x \in Workers :
        /\ w \in mapMutex.readers
        /\ userLocks[Req(w).UserID] \in mutexLocked
        /\ wpc[x] = "lu_map_lock"

\* C26: a call of UnlockUser by a goroutine that does not hold the user's
\* lock does not return normally: the step that completes it ends in the
\* error state (the fatal error of the runtime).
C26_ReleaseWithoutHoldIsError ==
    [][\A w \in Workers :
          (wpc[w] = "ul_unlock" /\ wpc'[w] # "ul_unlock") => wpc'[w] = "fatal"
      ]_vars

\* C27: the registry holds exactly one lock per user for its whole lifetime:
\* every mutex ever created is the entry of exactly one user, two users never
\* share a mutex, a worker's mutex is the entry of its user, and an entry,
\* once created, is never removed or replaced, so callers that lock a user
\* for the first time at the same moment all get the same mutex.
C27_OneLockPerUser ==
    /\ [](/\ Cardinality({u \in UserIDs : userLocks[u] # 0}) = mutexCount
          /\ \A u \in UserIDs : userLocks[u] \in 0 .. mutexCount
          /\ \A u \in UserIDs, v \in UserIDs :
                (userLocks[u] # 0 /\ userLocks[u] = userLocks[v]) => u = v
          /\ \A w \in Workers :
                userMutex[w] # 0 => userMutex[w] = userLocks[Req(w).UserID])
    /\ [][\A u \in UserIDs : userLocks[u] # 0 => userLocks'[u] = userLocks[u]]_vars

\* Two workers are in LockUser for the same user, whose entry did not exist
\* before: one has created the entry and holds its mutex, the other, which
\* was waiting for the map, reads the same entry.
C27_Witness ==
    \E w \in Workers, x \in Workers :
        /\ w # x
        /\ wpc[w] = "lu_user_lock"
        /\ wpc[x] = "lu_fetch"
        /\ Req(w).UserID = Req(x).UserID
        /\ mutexCount = 1
        /\ userMutex[w] = userLocks[Req(w).UserID]
        /\ userMutex[x] = 0

\* C28: the row lock of SELECT ... FOR UPDATE is enough on its own.  When
\* buys of one account run in executors that do not share the registry's
\* lock (a worker of the pool and the handler BuyStock), no balance is ever
\* negative, and every buy that commits debits the balance the store holds
\* at that moment: the balance changes only by a commit, and then to the old
\* balance less the cost of that one buy, so no committed debit is lost.
C28_StoreLockSuffices ==
    /\ [](\A u \in Accounts : cash[u] >= 0)
    /\ [][/\ \A w \in Workers :
                (wpc[w] = "tx_commit" /\ result'[w].Success)
                    => cash' = [cash EXCEPT ![Req(w).UserID] =
                                   Debit(@, TotalCost(Req(w)))]
          /\ \A j \in Sells :
                (spc[j] = "buy_commit" /\ sresp'[j].status = 200)
                    => cash' = [cash EXCEPT ![sreq[j].UserID] =
                                   Debit(@, TotalCost(sreq[j]))]
          /\ cash' # cash =>
                \/ \E w \in Workers : wpc[w] = "tx_commit" /\ result'[w].Success
                \/ \E j \in Sells : spc[j] = "buy_commit" /\ sresp'[j].status = 200
         ]_vars

\* After a buy of the account has committed, BuyStock's transaction holds
\* the account's row while a worker, inside the account's in-process lock,
\* is at its own SELECT ... FOR UPDATE of the same row.
C28_Witness ==
    \E w \in Workers, j \in Sells :
        /\ wpc[w] = "tx_balance"
        /\ spc[j] = "buy_portfolio"
        /\ Req(w).UserID = sreq[j].UserID
        /\ rowLock[UserRow(sreq[j].UserID)] = SellTx(j)
        /\ cash[sreq[j].UserID] < cash0[sreq[j].UserID]

\* C29: a SELL of a (user, symbol) pair that has no row in portfolios when
\* SellStock's SELECT reads it ends there: unless the store itself failed,
\* the response is 400 "You don't own this stock"; in every case no balance,
\* position or trade record changes, no id is drawn, no row is locked, and
\* the deferred Rollback is all that is left of the transaction.
C29_NoPositionRefused ==
    [][\A j \in Sells :
       /\ SellRollbackOnly(j)
       /\ (/\ spc[j] = "sell_position"
           /\ spc'[j] # "sell_position"
           /\ sreq[j].UserID \in Accounts
           /\ ~portfolios[sreq[j].UserID][sreq[j].StockSymbol].exists)
          => /\ spc'[j] = "sell_rollback"
             /\ sresp'[j] \in {Response(400, "You don't own this stock", 0, 0),
                               Response(500, "Database error", 0, 0)}
             /\ faultsLeft' = faultsLeft => sresp'[j].status = 400
             /\ stx'[j] = stx[j]
             /\ cash' = cash
             /\ portfolios' = portfolios
             /\ trades' = trades
             /\ tradeSeq' = tradeSeq
             /\ rowLock' = rowLock
      ]_vars

\* SellStock has refused a sell of a pair the account never held.
C29_Witness ==
    \E j \in Sells :
        /\ spc[j] = "done"
        /\ sresp[j] = Response(400, "You don't own this stock", 0, 0)
        /\ ~portfolios[sreq[j].UserID][sreq[j].StockSymbol].exists
        /\ ~portfolios0[sreq[j].UserID][sreq[j].StockSymbol].exists

\* Table after is what the trigger may leave of table all for user u: the
\* records of the other users as they were, at most TradeLimit records of u
\* and none deleted below that number, no deleted record of u created later
\* than a retained one, and the retained records in their order.
Trimmed(all, after, u) ==
    LET mine == {all[i] : i \in {k \in 1..Len(all) : all[k].user_id = u}}
        kept == {after[i] : i \in {k \in 1..Len(after) : after[k].user_id = u}}
    IN  /\ \A b \in Accounts \ {u} : TradesOf(after, b) = TradesOf(all, b)
        /\ kept \subseteq mine
        /\ Cardinality(kept) <= TradeLimit
        /\ Cardinality(kept) = IF Cardinality(mine) > TradeLimit
                               THEN TradeLimit ELSE Cardinality(mine)
        /\ \A d \in mine \ kept, r \in kept : d.created_at <= r.created_at
        /\ TradesOf(after, u) = SelectSeq(TradesOf(all, u), LAMBDA t : t \in kept)

\* C30: when a trade that inserts a record for user u commits, u is left with
\* at most TradeLimit (15) trade records, which are the most recently created
\* (by created_at) of u's records and the new one, and the records of every
\* other user are as they were; nothing else changes the trade records.
C30_HistoryTrimmedToLimit ==
    [][/\ \A w \in Workers :
              (wpc[w] = "tx_commit" /\ result'[w].Success)
                  => Trimmed(Append(trades, WorkerInsert(w)), trades', Req(w).UserID)
       /\ \A j \in Sells :
              (spc[j] = "buy_commit" /\ sresp'[j].status = 200)
                  => Trimmed(Append(trades, HandlerInsert(j, "BUY")), trades',
                             sreq[j].UserID)
       /\ trades' # trades =>
              \/ \E w \in Workers : wpc[w] = "tx_commit" /\ result'[w].Success
              \/ \E j \in Sells : spc[j] = "buy_commit" /\ sresp'[j].status = 200
      ]_vars

\* A buy of account 1 has committed on a full history: its record is there,
\* the oldest record of account 1 is gone, account 1 has TradeLimit records
\* and account 2 still has all of its own.
C30_Witness ==
    /\ tradeSeq > OtherTrades + TradeLimit
    /\ \E i \in 1..Len(trades) : trades[i].id = tradeSeq /\ trades[i].user_id = 1
    /\ \A i \in 1..Len(trades) : trades[i].id # OtherTrades + 1
    /\ Len(TradesOf(trades, 1)) = TradeLimit
    /\ Len(TradesOf(trades, 2)) = OtherTrades

\* C31: a BUY and a SELL of the same user and symbol never wait for each
\* other's row locks: no worker holds the account's row and waits for the
\* position's row while a SellStock handler holds that position's row and
\* waits for the account's row.
C31_NoCyclicWait ==
    \A w \in Workers, j \in Sells : ~Deadlock(w, j)

\* C32: once MaxCalls concurrent buys of one account, all of the same cost c,
\* have returned, exactly min(MaxCalls, floor(b/c)) of them have succeeded,
\* b being the balance they started from, and each of the others has failed
\* with "Insufficient funds".
C32_ExactlyFloorSucceed ==
    (\A k \in Calls :
        /\ cpc[k] = "returned"
        /\ creq[k].UserID = creq[1].UserID
        /\ creq[k].UserID \in Accounts
        /\ ExactCost(creq[k]) = ExactCost(creq[1]))
    => LET u == creq[1].UserID
           covered == (cash0[u] * 10) \div ExactCost(creq[1])
       IN  /\ Cardinality(Bought(u)) = IF covered < MaxCalls THEN covered ELSE MaxCalls
           /\ \A k \in Calls \ Bought(u) : cres[k].Error = "Insufficient funds"

====
